---- MODULE Spec2Model ----
(***************************************************************************)
(* Remote-job orchestration layer of the automation repository:            *)
(*   - SeleniumScraper._wait_for_page_load / _yes_to_alert  (Load-Wait)     *)
(*   - decorators.check_new_file wrapped around file_download (detector)   *)
(*   - Geocoder.start_geocoding / monitoring_progress       (orchestrator) *)
(*   - the action primitives of SeleniumScraper             (primitives)   *)
(*   - run() of the pipeline script gm_helth_phach_inf      (pipeline)     *)
(*   - SeleniumScraper.end_scraping                         (end_scraping) *)
(*   - refiner.chunk_dataframe                              (chunking)     *)
(*   - Geocoder.connect_to_platform                         (connect)      *)
(* The specifications share the variables: SpecLoadWait (SpecLoadWaitFair  *)
(* with fairness), SpecDetector (SpecDetectorFair with fairness), Spec     *)
(* (the orchestrator, which runs the detector as its download step),       *)
(* SpecReadiness (its readiness loop alone, with fairness), SpecPrimitives *)
(* (which runs Load-Wait after each navigation or click), SpecPipeline,    *)
(* SpecEndScraping, SpecJob (the orchestrator with what each step gave     *)
(* recorded), SpecChunk and SpecConnect.                                   *)
(***************************************************************************)
EXTENDS Integers, FiniteSets, Sequences, TLC

VARIABLES
    \* ---- Load-Wait (selenium_scraper.py 408-446)
    lw_pc,          \* position in _wait_for_page_load
    lw_timeout,     \* the timeout argument, in readiness polls
    waited,         \* readiness polls that found the page not complete
    alertsOpen,     \* modal dialogs still to be answered (presented in succession)
    presented,      \* dialogs presented so far
    accepts,        \* alert.accept() calls that succeeded
    windowOpen,     \* the current window still exists
    pageReady,      \* document.readyState == "complete"
    restarts,       \* recursive re-entries of _wait_for_page_load
    lastCheck,      \* outcome of the latest switch_to.alert
    \* ---- check_new_file (decorators.py 21-53) around file_download
    d_pc,           \* position in wrapper
    dir,            \* files now in self.download_dir
    initial_files,  \* the snapshot
    snapshots,      \* how many times the snapshot was taken
    now,            \* time.time()
    timeout,        \* kwargs["timeout"]
    end_time,       \* now + timeout at line 28
    download_clicked, \* what func returned
    polls,          \* directory listings taken inside the loop
    prev,           \* time.time() when the wrapper last slept or called func
    inTime,         \* result.shp came into the directory before end_time
    d_result,       \* what wrapper returned
    \* ---- Geocoder.start_geocoding / monitoring_progress (geocoder.py 43-119)
    pc,             \* position in start_geocoding / monitoring_progress
    result,         \* how start_geocoding ended: "True", "False" or "Raised"
    retries,        \* the local retries
    probes,         \* find_element calls of the monitoring poll
    pollRefreshes,  \* driver.refresh() calls of the monitoring poll
    rowFound,       \* a probe of the monitoring poll returned the control
    download_button,\* the local download_button
    lastObs,        \* latest class read off download_button
    disabledObs,    \* evaluations of the while condition that were true
    readyRefreshes, \* driver.refresh() calls of the readiness loop
    downloadAttempts, \* calls of file_download
    clearCalls,     \* click_element calls on the clear-history control
    clearClicks,    \* clicks that reached the clear-history control
    download,       \* what monitoring_progress returned
    closes,         \* driver.close() calls
    faults,         \* unexpected faults raised by the browser so far
    \* ---- the action primitives of SeleniumScraper (selenium_scraper.py 53-253)
    prim,           \* the primitive that was called
    p_pc,           \* position in it
    p_timeout,      \* the timeout argument, in polls of WebDriverWait
    p_waited,       \* polls of WebDriverWait that found the condition false
    visible,        \* elements that match the xpath and pass the condition now
    elements,       \* handles the wait returned (0: none)
    clicked,        \* the elements clicked, in the order of the clicks
    lwResults,      \* what each _wait_for_page_load of the primitive gave
    handles,        \* driver.window_handles: the URL of each window, in order
    url,            \* the url argument of switch_to_window
    min_windows,    \* its min_windows argument
    current,        \* the window the session is on (index into handles)
    scanned,        \* switch_to.window calls of the scan
    p_result,       \* what the primitive gave its caller
    \* ---- the pipeline script (gm_helth_phach_inf.py 28-66, 140-158, 235-245)
    stage,          \* position in run()
    sessions,       \* browser sessions that are alive
    launched,       \* sessions created so far, in order
    chunks,         \* the files of refined_dir / "CHUNK"
    chunk,          \* the chunk start_geocoding is working on (0: none)
    geocoded,       \* the chunks handed to start_geocoding and what it gave
    done,           \* the steps of run() executed so far, in order
    \* ---- end_scraping (selenium_scraper.py 305-336)
    es_pc,          \* position in end_scraping
    es_calls,       \* calls of end_scraping on the session so far
    es_result,      \* what the call gave
    quits,          \* driver.quit() calls so far
    cleanPolls,     \* listings of this call that found no provisional file
    \* ---- what the steps of one start_geocoding gave (geocoder.py 43-78)
    uploaded,       \* upload_xlsx: "False" when one of its steps gave False
    triggered,      \* what the click of line 48 gave
    popup,          \* what switch_to_window of line 66 gave
    \* ---- chunk_dataframe (file_util.py 378-389)
    c_pc,           \* position in the list comprehension
    df,             \* the rows of the DataFrame, in order
    chunk_size,     \* the chunk_size argument
    c_i,            \* the i of range(0, len(df), chunk_size)
    c_out,          \* the chunks built so far
    \* ---- connect_to_platform (geocoder.py 19-41)
    cn_pc,          \* position in connect_to_platform
    cn_log,         \* what each primitive called so far gave, in order
    connected,      \* what connect_to_platform gave
    siteUp,         \* the login page can be loaded
    loginOk         \* the platform accepts the credentials

lwVars  == <<lw_pc, lw_timeout, waited, alertsOpen, presented, accepts,
             windowOpen, pageReady, restarts, lastCheck>>
detVars == <<d_pc, dir, initial_files, snapshots, now, timeout, end_time,
             download_clicked, polls, prev, inTime, d_result>>
geoVars == <<pc, result, retries, probes,
             pollRefreshes, rowFound, download_button, lastObs, disabledObs,
             readyRefreshes, downloadAttempts, clearCalls, clearClicks,
             download, closes, faults>>
primVars == <<prim, p_pc, p_timeout, p_waited, visible, elements, clicked,
              lwResults, handles, url, min_windows, current, scanned, p_result>>
pipeVars == <<stage, sessions, launched, chunks, chunk, geocoded, done>>
esVars  == <<es_pc, es_calls, es_result, quits, cleanPolls>>
jobVars == <<uploaded, triggered, popup>>
chunkVars == <<c_pc, df, chunk_size, c_i, c_out>>
connVars == <<cn_pc, cn_log, connected, siteUp, loginOk>>
vars    == <<lwVars, detVars, geoVars, primVars, pipeVars, esVars, jobVars,
             chunkVars, connVars>>

\* ------------------------------------------------------------------ bounds
MaxDialogs == 3
MaxWait == 2
MaxTimeout == 20
MaxDisabled == 2
MaxFaults == 1
MaxElements == 2
MaxWindows == 3
MaxChunks == 4

\* =================================================================
\* Load-Wait protocol
\* =================================================================

LwIdle ==
    /\ lw_pc = "Idle" /\ lw_timeout = 0 /\ waited = 0 /\ alertsOpen = 0
    /\ presented = 0 /\ accepts = 0 /\ windowOpen = TRUE /\ pageReady = TRUE
    /\ restarts = 0 /\ lastCheck = "None"

DetIdle ==
    /\ d_pc = "Idle" /\ dir = {} /\ initial_files = {} /\ snapshots = 0
    /\ now = 0 /\ timeout = 0 /\ end_time = 0 /\ download_clicked = "none"
    /\ polls = 0 /\ prev = 0 /\ inTime = FALSE
    /\ d_result = "none"

GeoIdle ==
    /\ pc = "Idle" /\ result = "none" /\ retries = 0 /\ probes = 0 /\ pollRefreshes = 0
    /\ rowFound = FALSE /\ download_button = "unbound" /\ lastObs = "none"
    /\ disabledObs = 0 /\ readyRefreshes = 0 /\ downloadAttempts = 0
    /\ clearCalls = 0 /\ clearClicks = 0 /\ download = "none" /\ closes = 0
    /\ faults = 0

PrimIdle ==
    /\ prim = "none" /\ p_pc = "Idle" /\ p_timeout = 0 /\ p_waited = 0
    /\ visible = 0 /\ elements = 0 /\ clicked = <<>> /\ lwResults = <<>>
    /\ handles = <<>> /\ url = <<>> /\ min_windows = 0 /\ current = 0
    /\ scanned = 0 /\ p_result = "none"

PipeIdle ==
    /\ stage = "Idle" /\ sessions = {} /\ launched = <<>> /\ chunks = {}
    /\ chunk = 0 /\ geocoded = <<>> /\ done = <<>>

ConnIdle ==
    /\ cn_pc = "Idle" /\ cn_log = <<>> /\ connected = "none"
    /\ siteUp = FALSE /\ loginOk = FALSE

ChunkIdle ==
    /\ c_pc = "Idle" /\ df = <<>> /\ chunk_size = 0 /\ c_i = 0 /\ c_out = <<>>

JobIdle == uploaded = "none" /\ triggered = "none" /\ popup = "none"

EsIdle ==
    /\ es_pc = "Idle" /\ es_calls = 0 /\ es_result = "none" /\ quits = 0
    /\ cleanPolls = 0

\* _wait_for_page_load is entered (line 420): any number of dialogs may be up,
\* the click before it may have closed the window.
InitLoadWait ==
    /\ lw_pc = "CheckingAlert"
    /\ lw_timeout \in 1..MaxWait
    /\ waited = 0
    /\ alertsOpen \in 0..MaxDialogs
    /\ presented = alertsOpen
    /\ accepts = 0
    /\ windowOpen \in BOOLEAN
    /\ pageReady \in BOOLEAN
    /\ restarts = 0
    /\ lastCheck = "None"
    /\ DetIdle
    /\ GeoIdle
    /\ PrimIdle
    /\ PipeIdle
    /\ EsIdle
    /\ JobIdle
    /\ ChunkIdle
    /\ ConnIdle

\* a variant that leaves the loop after the first accept
YesToAlertMut(after) ==
    /\ IF ~windowOpen
         THEN /\ lastCheck' = "NoWindow" /\ lw_pc' = after
              /\ UNCHANGED <<alertsOpen, accepts>>
         ELSE IF alertsOpen > 0
           THEN /\ lastCheck' = "Accepted" /\ lw_pc' = after
                /\ alertsOpen' = alertsOpen - 1
                /\ accepts' = accepts + 1
           ELSE /\ lastCheck' = "NoAlert" /\ lw_pc' = after
                /\ UNCHANGED <<alertsOpen, accepts>>
    /\ UNCHANGED <<lw_timeout, waited, presented, windowOpen, pageReady, restarts>>

\* One iteration of the loop of _yes_to_alert: sleep, switch_to.alert, accept.
\* NoSuchWindowException and NoAlertPresentException end the loop; an accepted
\* dialog keeps it going.
YesToAlert(after) ==
    /\ IF ~windowOpen
         THEN /\ lastCheck' = "NoWindow" /\ lw_pc' = after
              /\ UNCHANGED <<alertsOpen, accepts>>
         ELSE IF alertsOpen > 0
           THEN /\ lastCheck' = "Accepted"
                /\ alertsOpen' = alertsOpen - 1
                /\ accepts' = accepts + 1
                /\ UNCHANGED lw_pc
           ELSE /\ lastCheck' = "NoAlert" /\ lw_pc' = after
                /\ UNCHANGED <<alertsOpen, accepts>>
    /\ UNCHANGED <<lw_timeout, waited, presented, windowOpen, pageReady, restarts>>

\* line 420: the _yes_to_alert of the entry
CheckingAlert ==
    /\ lw_pc = "CheckingAlert"
    /\ YesToAlert("WaitingForReady")
    /\ UNCHANGED <<detVars, geoVars>>

\* lines 431-432: the handler's _yes_to_alert, then the recursive call, which
\* starts over at line 420 with the same timeout
HandlerAlert ==
    /\ lw_pc = "HandlerAlert"
    /\ YesToAlert("CheckingAlert")
    /\ UNCHANGED <<detVars, geoVars>>

\* a variant whose restart goes on with the time already waited
WaitingForReadyMut ==
    /\ lw_pc = "WaitingForReady"
    /\ IF ~windowOpen
         THEN /\ lw_pc' = "Raised"
              /\ UNCHANGED <<waited, alertsOpen, restarts>>
         ELSE IF alertsOpen > 0
           THEN /\ lw_pc' = "HandlerAlert"
                /\ alertsOpen' \in {alertsOpen, alertsOpen - 1}
                /\ restarts' = restarts + 1
                /\ UNCHANGED waited
           ELSE IF pageReady
             THEN /\ lw_pc' = "Done"
                  /\ UNCHANGED <<waited, alertsOpen, restarts>>
             ELSE /\ waited' = waited + 1
                  /\ lw_pc' = IF waited + 1 >= lw_timeout THEN "TimedOut"
                                                          ELSE "WaitingForReady"
                  /\ UNCHANGED <<alertsOpen, restarts>>
    /\ UNCHANGED <<lw_timeout, presented, accepts, windowOpen, pageReady, lastCheck>>
    /\ UNCHANGED <<detVars, geoVars>>

\* lines 423-434: one poll of WebDriverWait(...).until(readyState == complete).
\* execute_script on a closed window raises NoSuchWindowException, which neither
\* except clause names; with a dialog up it raises
\* UnexpectedAlertPresentException (the driver may have dismissed the dialog by
\* then, or left it open).
WaitingForReady ==
    /\ lw_pc = "WaitingForReady"
    /\ IF ~windowOpen
         THEN /\ lw_pc' = "Raised"
              /\ UNCHANGED <<waited, alertsOpen, restarts>>
         ELSE IF alertsOpen > 0
           THEN /\ lw_pc' = "HandlerAlert"
                /\ alertsOpen' \in {alertsOpen, alertsOpen - 1}
                /\ restarts' = restarts + 1
                /\ waited' = 0
           ELSE IF pageReady
             THEN /\ lw_pc' = "Done"
                  /\ UNCHANGED <<waited, alertsOpen, restarts>>
             ELSE /\ waited' = waited + 1
                  /\ lw_pc' = IF waited + 1 >= lw_timeout THEN "TimedOut"
                                                          ELSE "WaitingForReady"
                  /\ UNCHANGED <<alertsOpen, restarts>>
    /\ UNCHANGED <<lw_timeout, presented, accepts, windowOpen, pageReady, lastCheck>>
    /\ UNCHANGED <<detVars, geoVars>>

LwRunning == lw_pc \in {"CheckingAlert", "HandlerAlert", "WaitingForReady"}

\* ---- the browser, while Load-Wait runs
PresentDialog ==
    /\ LwRunning /\ windowOpen /\ presented < MaxDialogs
    /\ alertsOpen' = alertsOpen + 1
    /\ presented' = presented + 1
    /\ UNCHANGED <<lw_pc, lw_timeout, waited, accepts, windowOpen, pageReady,
                   restarts, lastCheck>>
    /\ UNCHANGED <<detVars, geoVars>>

PageLoads ==
    /\ LwRunning /\ windowOpen /\ ~pageReady
    /\ pageReady' = TRUE
    /\ UNCHANGED <<lw_pc, lw_timeout, waited, alertsOpen, presented, accepts,
                   windowOpen, restarts, lastCheck>>
    /\ UNCHANGED <<detVars, geoVars>>

WindowCloses ==
    /\ LwRunning /\ windowOpen
    /\ windowOpen' = FALSE
    /\ alertsOpen' = 0
    /\ UNCHANGED <<lw_pc, lw_timeout, waited, presented, accepts, pageReady,
                   restarts, lastCheck>>
    /\ UNCHANGED <<detVars, geoVars>>

NextLoadWait ==
    \/ CheckingAlert /\ UNCHANGED <<primVars, pipeVars, esVars, jobVars, chunkVars, connVars>>
    \/ HandlerAlert /\ UNCHANGED <<primVars, pipeVars, esVars, jobVars, chunkVars, connVars>>
    \/ WaitingForReady /\ UNCHANGED <<primVars, pipeVars, esVars, jobVars, chunkVars, connVars>>
    \/ PresentDialog /\ UNCHANGED <<primVars, pipeVars, esVars, jobVars, chunkVars, connVars>>
    \/ PageLoads /\ UNCHANGED <<primVars, pipeVars, esVars, jobVars, chunkVars, connVars>>
    \/ WindowCloses /\ UNCHANGED <<primVars, pipeVars, esVars, jobVars, chunkVars, connVars>>

SpecLoadWait == InitLoadWait /\ [][NextLoadWait]_vars

\* -------------------------------------------------------------- C9, C10
\* C9: given N successive dialog presentations at entry, _yes_to_alert accepts
\* exactly N dialogs, and the readiness polling begins only after an alert
\* check that found no dialog open.
C9_DismissBeforeReady ==
    [][ (lw_pc = "CheckingAlert" /\ lw_pc' = "WaitingForReady") =>
           /\ lastCheck' \in {"NoAlert", "NoWindow"}
           /\ (windowOpen /\ restarts = 0) =>
                 (alertsOpen = 0 /\ accepts' = presented) ]_vars

C9_Witness ==
    /\ lw_pc = "WaitingForReady" /\ restarts = 0 /\ windowOpen
    /\ lastCheck = "NoAlert" /\ accepts = MaxDialogs

\* C10: Load-Wait never raises; on every path, the closed window included, it
\* ends in Done or TimedOut.
C10_NeverRaises == lw_pc /= "Raised"

\* ------------------------------------------------------------------ C26
\* C26: a dialog met while waiting for readiness sends Load-Wait through the
\* handler back to CheckingAlert; each of the two alert phases is left only by
\* a check that found no dialog (or no window); the readiness wait then starts
\* again from zero with the timeout unchanged; and Done is entered only from
\* a readiness poll made with no dialog open, after which no dialog is
\* dismissed any more.
C26_RestartOnDialog ==
    [][ /\ (lw_pc = "WaitingForReady" /\ windowOpen /\ alertsOpen > 0
             /\ lw_pc' /= lw_pc) =>
              (lw_pc' = "HandlerAlert" /\ waited' = 0)
        /\ (lw_pc = "HandlerAlert" /\ lw_pc' /= lw_pc) =>
              (lw_pc' = "CheckingAlert" /\ waited' = 0
               /\ lastCheck' \in {"NoAlert", "NoWindow"})
        /\ (lw_pc = "CheckingAlert" /\ lw_pc' /= lw_pc) =>
              (lw_pc' = "WaitingForReady" /\ waited' = 0
               /\ lastCheck' \in {"NoAlert", "NoWindow"}
               /\ (windowOpen => alertsOpen = 0))
        /\ (lw_pc' = "Done" /\ lw_pc /= "Done") =>
              (lw_pc = "WaitingForReady" /\ windowOpen /\ alertsOpen = 0
               /\ pageReady)
        /\ lw_pc = "Done" => accepts' = accepts
        /\ lw_timeout' = lw_timeout ]_vars

C26_Witness ==
    /\ lw_pc = "Done" /\ restarts >= 1 /\ accepts >= 2
    /\ lastCheck = "NoAlert"

\* ------------------------------------------------------------------ C29
\* _wait_for_page_load runs in one thread; its sleeps and waits are finite, so
\* each of its steps is taken once it is due
LwStep ==
    /\ CheckingAlert \/ HandlerAlert \/ WaitingForReady
    /\ UNCHANGED <<primVars, pipeVars, esVars, jobVars, chunkVars, connVars>>

SpecLoadWaitFair == InitLoadWait /\ [][NextLoadWait]_vars /\ WF_vars(LwStep)

\* C29: with finitely many dialogs presented, Load-Wait terminates, and it
\* does so in Done or TimedOut.
C29_EndsDoneOrTimedOut == <>(lw_pc \in {"Done", "TimedOut"})

\* =================================================================
\* Download completion detector: check_new_file around file_download
\* =================================================================

File(stem, ext) == [stem |-> stem, ext |-> ext]

FileA      == File("A", ".shp")
ResultTmp  == File("result", ".tmp")
ResultShp  == File("result", ".shp")
PartUpper  == File("part", ".CRDOWNLOAD")
Screenshot == File("shot", ".png")

\* what the download directory may hold besides the session's screenshot
Downloads == {FileA, ResultTmp, ResultShp, PartUpper}
\* what the browser writes while a download runs
Incoming == {ResultTmp, ResultShp, PartUpper}

\* str.lower() on the suffixes in use
Lower(ext) ==
    CASE ext = ".CRDOWNLOAD" -> ".crdownload"
      [] ext = ".TMP" -> ".tmp"
      [] OTHER -> ext

\* a variant without lower(): the suffix compared as written
IsProvisionalMut(f) == f.ext \in {".crdownload", ".tmp"}

\* line 42: str(f).lower().endswith((".crdownload", ".tmp"))
IsProvisional(f) == Lower(f.ext) \in {".crdownload", ".tmp"}

\* line 51: time.sleep(10)
PollInterval == 10

Timeouts == {5, MaxTimeout}
\* how long the wrapped function may take: no time, a little, or more than any
\* timeout
TriggerTimes == {0, 3, MaxTimeout + 1}

InitDetector ==
    /\ LwIdle
    /\ GeoIdle
    /\ PrimIdle
    /\ PipeIdle
    /\ EsIdle
    /\ JobIdle
    /\ ChunkIdle
    /\ ConnIdle
    /\ d_pc = "Start"
    /\ dir \in SUBSET Downloads
    /\ initial_files = {} /\ snapshots = 0
    /\ now = 0
    /\ timeout \in Timeouts
    /\ end_time = 0
    /\ download_clicked = "none"
    /\ polls = 0 /\ prev = 0 /\ inTime = FALSE
    /\ d_result = "none"

\* lines 22-28: the snapshot and the deadline
TakeSnapshot ==
    /\ d_pc = "Start"
    /\ initial_files' = dir
    /\ snapshots' = snapshots + 1
    /\ end_time' = now + timeout
    /\ d_pc' = "Screenshot"
    /\ prev' = now
    /\ UNCHANGED <<dir, now, timeout, download_clicked, polls, inTime, d_result>>

\* line 31 -> file_download line 278: get_screenshot saves a .png into the
\* download directory, or fails and is ignored
GetScreenshot ==
    /\ d_pc = "Screenshot"
    /\ dir' \in {dir, dir \cup {Screenshot}}
    /\ d_pc' = "Click"
    /\ UNCHANGED <<initial_files, snapshots, now, timeout, end_time,
                   download_clicked, polls, prev, inTime, d_result>>

\* a variant without the test of line 32: the loop is entered whatever func
\* returned
ClickDownloadMut ==
    /\ d_pc = "Click"
    /\ \E r \in {"True", "False", "Raised"}, dt \in TriggerTimes :
         /\ now' = now + dt
         /\ prev' = now
         /\ download_clicked' = r
         /\ IF r /= "Raised"
              THEN d_pc' = "Poll" /\ UNCHANGED d_result
              ELSE d_pc' = "Done" /\ d_result' = r
    /\ UNCHANGED <<dir, initial_files, snapshots, timeout, end_time, polls,
                   inTime>>

\* file_download lines 280-286 and wrapper lines 31-33: click_element returns
\* True or False, or a fault of the click escapes
ClickDownload ==
    /\ d_pc = "Click"
    /\ \E r \in {"True", "False", "Raised"}, dt \in TriggerTimes :
         /\ now' = now + dt
         /\ prev' = now
         /\ download_clicked' = r
         /\ IF r = "True"
              THEN d_pc' = "Poll" /\ UNCHANGED d_result
              ELSE d_pc' = "Done" /\ d_result' = r
    /\ UNCHANGED <<dir, initial_files, snapshots, timeout, end_time, polls,
                   inTime>>

\* a variant whose loop has no way out at the deadline: past end_time it goes
\* on waiting
PollDirectoryForever ==
    /\ d_pc = "Poll"
    /\ IF now < end_time
         THEN LET new_files == dir \ initial_files
                  tmp_files == {f \in new_files : IsProvisional(f)}
                  downloaded_files == new_files \ tmp_files
              IN  /\ polls' = polls + 1
                  /\ IF downloaded_files /= {}
                       THEN /\ d_pc' = "Done" /\ d_result' = "True"
                            /\ UNCHANGED <<now, prev>>
                       ELSE /\ now' = now + PollInterval /\ prev' = now
                            /\ UNCHANGED <<d_pc, d_result>>
         ELSE UNCHANGED <<d_pc, d_result, now, polls, prev>>
    /\ UNCHANGED <<dir, initial_files, snapshots, timeout, end_time,
                   download_clicked, inTime>>

\* a variant that reports success only when no provisional new file is left
PollDirectoryWaitsForTmp ==
    /\ d_pc = "Poll"
    /\ IF now < end_time
         THEN LET new_files == dir \ initial_files
                  tmp_files == {f \in new_files : IsProvisional(f)}
                  downloaded_files == new_files \ tmp_files
              IN  /\ polls' = polls + 1
                  /\ IF downloaded_files /= {} /\ tmp_files = {}
                       THEN /\ d_pc' = "Done" /\ d_result' = "True"
                            /\ UNCHANGED <<now, prev>>
                       ELSE /\ now' = now + PollInterval /\ prev' = now
                            /\ UNCHANGED <<d_pc, d_result>>
         ELSE /\ d_pc' = "Done" /\ d_result' = "False"
              /\ UNCHANGED <<now, polls, prev>>
    /\ UNCHANGED <<dir, initial_files, snapshots, timeout, end_time,
                   download_clicked, inTime>>

\* a variant that takes the snapshot again at every listing that found nothing
PollDirectoryResnapshot ==
    /\ d_pc = "Poll"
    /\ IF now < end_time
         THEN LET new_files == dir \ initial_files
                  tmp_files == {f \in new_files : IsProvisional(f)}
                  downloaded_files == new_files \ tmp_files
              IN  /\ polls' = polls + 1
                  /\ IF downloaded_files /= {}
                       THEN /\ d_pc' = "Done" /\ d_result' = "True"
                            /\ UNCHANGED <<now, prev, initial_files>>
                       ELSE /\ now' = now + PollInterval /\ prev' = now
                            /\ initial_files' = dir
                            /\ UNCHANGED <<d_pc, d_result>>
         ELSE /\ d_pc' = "Done" /\ d_result' = "False"
              /\ UNCHANGED <<now, polls, prev, initial_files>>
    /\ UNCHANGED <<dir, snapshots, timeout, end_time,
                   download_clicked, inTime>>

\* lines 36-53: one pass of the while loop
PollDirectory ==
    /\ d_pc = "Poll"
    /\ IF now < end_time
         THEN LET new_files == dir \ initial_files
                  tmp_files == {f \in new_files : IsProvisional(f)}
                  downloaded_files == new_files \ tmp_files
              IN  /\ polls' = polls + 1
                  /\ IF downloaded_files /= {}
                       THEN /\ d_pc' = "Done" /\ d_result' = "True"
                            /\ UNCHANGED <<now, prev>>
                       ELSE /\ now' = now + PollInterval /\ prev' = now
                            /\ UNCHANGED <<d_pc, d_result>>
         ELSE /\ d_pc' = "Done" /\ d_result' = "False"
              /\ UNCHANGED <<now, polls, prev>>
    /\ UNCHANGED <<dir, initial_files, snapshots, timeout, end_time,
                   download_clicked, inTime>>

DetRunning == d_pc \in {"Screenshot", "Click", "Poll"}

\* ---- the download directory, written by the browser while the detector runs:
\* files appear, and a provisional file goes away when its download ends. A
\* file appears at some moment between prev and now: before end_time only if
\* prev is, after it only if now is. The
\* directory is followed from the snapshot (what it held before is Init's
\* choice) until the wrapper returns, so that at "Done" dir is what the wrapper
\* last saw.
FileAppears ==
    /\ DetRunning
    /\ \E f \in Incoming \ dir, early \in BOOLEAN :
         /\ dir' = dir \cup {f}
         /\ IF f = ResultShp
              THEN /\ inTime' = early
                   /\ early => prev < end_time
                   /\ ~early => now >= end_time
              ELSE ~early /\ UNCHANGED inTime
    /\ UNCHANGED <<d_pc, initial_files, snapshots, now, timeout, end_time,
                   download_clicked, polls, prev, d_result>>

FileVanishes ==
    /\ DetRunning
    /\ \E f \in dir \cap {ResultTmp, PartUpper} : dir' = dir \ {f}
    /\ UNCHANGED <<d_pc, initial_files, snapshots, now, timeout, end_time,
                   download_clicked, polls, prev, inTime, d_result>>

NextDetector ==
    \/ TakeSnapshot /\ UNCHANGED <<lwVars, geoVars, primVars, pipeVars, esVars, jobVars, chunkVars, connVars>>
    \/ GetScreenshot /\ UNCHANGED <<lwVars, geoVars, primVars, pipeVars, esVars, jobVars, chunkVars, connVars>>
    \/ ClickDownload /\ UNCHANGED <<lwVars, geoVars, primVars, pipeVars, esVars, jobVars, chunkVars, connVars>>
    \/ PollDirectory /\ UNCHANGED <<lwVars, geoVars, primVars, pipeVars, esVars, jobVars, chunkVars, connVars>>
    \/ FileAppears /\ UNCHANGED <<lwVars, geoVars, primVars, pipeVars, esVars, jobVars, chunkVars, connVars>>
    \/ FileVanishes /\ UNCHANGED <<lwVars, geoVars, primVars, pipeVars, esVars, jobVars, chunkVars, connVars>>

SpecDetector == InitDetector /\ [][NextDetector]_vars

\* lines 21-53 run in one thread from top to bottom: the wrapper waits on
\* nothing but func and the clock, so each of its steps is taken once it is due
WrapperStep ==
    /\ TakeSnapshot \/ GetScreenshot \/ ClickDownload \/ PollDirectory
    /\ UNCHANGED <<lwVars, geoVars, primVars, pipeVars, esVars, jobVars, chunkVars, connVars>>

SpecDetectorFair == InitDetector /\ [][NextDetector]_vars /\ WF_vars(WrapperStep)

\* ------------------------------------------------------------------- C1
AnyCaseProvisional == {".tmp", ".TMP", ".crdownload", ".CRDOWNLOAD"}

\* C1: the detector returns True only if, at a poll made after the trigger
\* returned success, the directory held a file absent from the snapshot whose
\* name does not end, in any case, in .crdownload or .tmp; so never on the
\* strength of a pre-existing file or of a provisional new file alone.
C1_TrueOnlyOnFinishedNewFile ==
    d_result = "True" =>
        /\ download_clicked = "True"
        /\ polls >= 1
        /\ \E f \in dir \ initial_files : f.ext \notin AnyCaseProvisional
        /\ ~(dir \ initial_files \subseteq {ResultTmp, PartUpper})

C1_Witness ==
    /\ d_result = "True"
    /\ FileA \in initial_files /\ FileA \in dir
    /\ ResultTmp \in dir /\ ResultShp \in dir
    /\ PartUpper \in dir

\* ------------------------------------------------------------------ C12
\* C12: if the trigger action returns a false result the detector returns False
\* at once: the step that brings func's false result is the step that ends the
\* wrapper, no directory listing is taken after the trigger and no sleep of
\* the loop is executed (the clock stays where the trigger left it).
C12_FailedTriggerSkipsPolling ==
    [][ /\ (download_clicked' = "False" /\ download_clicked /= "False") =>
              (d_pc' = "Done" /\ d_result' = "False" /\ polls' = 0)
        /\ download_clicked = "False" =>
              (d_pc' = "Done" /\ d_result' = "False" /\ polls' = 0 /\ now' = now)
      ]_vars

C12_Witness ==
    /\ download_clicked = "False" /\ d_result = "False" /\ polls = 0
    /\ ResultShp \in dir \ initial_files

\* ------------------------------------------------------------------ C13
\* C13: check_new_file always terminates. Once in the loop it comes to its
\* return; the k-th listing is taken PollInterval * (k - 1) after the first and
\* before the deadline, so there are finitely many; and when the loop ends
\* without a finished new file seen at a poll, that is at or past the deadline
\* and the result is False.
C13_Terminates ==
    /\ (d_pc = "Poll") ~> (d_pc = "Done")
    /\ [](polls >= 1 => PollInterval * (polls - 1) < timeout)
    /\ []((d_pc = "Done" /\ download_clicked = "True" /\ d_result /= "True") =>
             (d_result = "False" /\ now >= end_time))

C13_Witness ==
    /\ d_pc = "Done" /\ download_clicked = "True" /\ d_result = "False"
    /\ polls = 2 /\ now >= end_time
    /\ dir \ initial_files = {ResultTmp}

\* ------------------------------------------------------------------ C14
\* a new file whose name does not end, in any case, in .tmp or .crdownload
FinishedDelta == {f \in dir \ initial_files : f.ext \notin AnyCaseProvisional}

\* C14: a listing (a step that counts a poll) whose delta against the snapshot
\* holds at least one non-provisional file makes the wrapper return True at
\* that very poll, whatever provisional files the delta holds besides. Hence
\* the loop never sleeps on a listing that held a finished new file.
C14_TrueAtFirstFinishedPoll ==
    [][ (polls' = polls + 1 /\ FinishedDelta /= {}) =>
           (d_pc' = "Done" /\ d_result' = "True" /\ now' = now) ]_vars

C14_Witness ==
    /\ d_result = "True" /\ polls = 2
    /\ {ResultTmp, PartUpper, ResultShp} \subseteq dir \ initial_files

\* ------------------------------------------------------------------ C33
\* the finished new files that the clicked download delivered: those that are
\* not the screenshot file_download saved itself
Delivered == FinishedDelta \ {Screenshot}

\* C33: file_download returns True only if a file delivered by the clicked
\* download has finished in the directory; the screenshot the session saved
\* during the trigger is not counted as the new file.
C33_ScreenshotNotCounted ==
    d_result = "True" => Delivered /= {}

\* ------------------------------------------------------------------ C34
\* C34: after a trigger that succeeded the wrapper lists the directory at
\* least once before it returns False, so a finished new file that is there
\* when the trigger returns is found, also when the trigger took the whole
\* timeout.
C34_ListsOnceBeforeFalse ==
    (d_result = "False" /\ download_clicked = "True") => polls >= 1

\* ------------------------------------------------------------------ C15
\* C15: the snapshot is taken once, before func is called, and initial_files
\* is never assigned again: func is called and the directory is listed in the
\* loop only with that one snapshot in hand.
C15_SnapshotOnceBeforeTrigger ==
    [][ /\ snapshots' /= snapshots =>
              (snapshots = 0 /\ snapshots' = 1 /\ download_clicked = "none"
               /\ polls = 0 /\ initial_files' = dir)
        /\ snapshots >= 1 => initial_files' = initial_files
        /\ download_clicked' /= download_clicked =>
              (snapshots = 1 /\ d_pc = "Click")
        /\ polls' /= polls => (snapshots = 1 /\ download_clicked = "True")
      ]_vars

C15_Witness ==
    /\ snapshots = 1 /\ polls = 2 /\ d_result = "True"
    /\ initial_files = {FileA} /\ ResultShp \in dir

\* =================================================================
\* Remote job orchestrator: Geocoder.start_geocoding
\* =================================================================

max_retries == 30

\* what a primitive that clicks or navigates may give its caller: its boolean,
\* or a fault of the browser that no except clause of the primitive names
Outcomes == {"True", "False", "Raised"}

MayFault == faults < MaxFaults

Init ==
    /\ LwIdle
    /\ PrimIdle
    /\ PipeIdle
    /\ EsIdle
    /\ JobIdle
    /\ ChunkIdle
    /\ ConnIdle
    /\ d_pc = "Idle"
    /\ dir \in SUBSET {FileA}
    /\ initial_files = {} /\ snapshots = 0
    /\ now = 0
    /\ timeout \in Timeouts
    /\ end_time = 0
    /\ download_clicked = "none"
    /\ polls = 0 /\ prev = 0 /\ inTime = FALSE
    /\ d_result = "none"
    /\ pc = "Upload" /\ result = "none" /\ retries = 0 /\ probes = 0 /\ pollRefreshes = 0
    /\ rowFound = FALSE /\ download_button = "unbound" /\ lastObs = "none"
    /\ disabledObs = 0 /\ readyRefreshes = 0 /\ downloadAttempts = 0
    /\ clearCalls = 0 /\ clearClicks = 0 /\ download = "none" /\ closes = 0
    /\ faults = 0

\* a fault escapes start_geocoding: nothing in it or in monitoring_progress
\* catches outside the two try blocks
Escape ==
    /\ pc' = "End" /\ result' = "Raised" /\ faults' = faults + 1

\* line 45, upload_xlsx lines 121-132: five primitives, their results dropped
UploadXlsxGives(o) ==
    /\ pc = "Upload"
    /\ IF o = "Raised"
         THEN MayFault /\ Escape
         ELSE /\ pc' = "Trigger"
              /\ UNCHANGED <<result, faults>>
    /\ UNCHANGED <<retries, probes, pollRefreshes, rowFound,
                   download_button, lastObs, disabledObs, readyRefreshes,
                   downloadAttempts, clearCalls, clearClicks, download, closes>>
    /\ UNCHANGED <<lwVars, detVars>>

UploadXlsx == \E o \in Outcomes : UploadXlsxGives(o)

\* line 48: the job-start click, its result dropped
TriggerJobGives(o) ==
    /\ pc = "Trigger"
    /\ IF o = "Raised"
         THEN MayFault /\ Escape
         ELSE /\ pc' = "Popup"
              /\ UNCHANGED <<result, faults>>
    /\ UNCHANGED <<retries, probes, pollRefreshes, rowFound,
                   download_button, lastObs, disabledObs, readyRefreshes,
                   downloadAttempts, clearCalls, clearClicks, download, closes>>
    /\ UNCHANGED <<lwVars, detVars>>

TriggerJob == \E o \in Outcomes : TriggerJobGives(o)

\* lines 66-78: switch to the monitoring popup, else fetch the monitoring page
\* (its result dropped); then retries = 0
LocateMonitoringGives(found, o) ==
    /\ pc = "Popup"
    /\ IF ~found /\ o = "Raised"
         THEN MayFault /\ Escape /\ UNCHANGED retries
         ELSE /\ retries' = 0
              /\ pc' = "Poll"
              /\ UNCHANGED <<result, faults>>
    /\ UNCHANGED <<probes, pollRefreshes, rowFound,
                   download_button, lastObs, disabledObs, readyRefreshes,
                   downloadAttempts, clearCalls, clearClicks, download, closes>>
    /\ UNCHANGED <<lwVars, detVars>>

LocateMonitoring ==
    \E found \in BOOLEAN, o \in Outcomes : LocateMonitoringGives(found, o)

\* lines 86-90 and 94-99: the bookkeeping after a probe that did not find the
\* control; n is the number of increments of retries the probe caused (two when
\* the refresh of line 90 raised into the except clause), each followed by a
\* refresh
CountRetry(n) ==
    /\ retries' = retries + n
    /\ pollRefreshes' = pollRefreshes + n
    /\ IF retries + n > max_retries
         THEN pc' = "Return" /\ download' = "False"
         ELSE UNCHANGED <<pc, download>>

ProbeKinds == {"found", "absent", "absent_refresh_raised", "probe_raised",
               "handler_refresh_raised"}

\* lines 79-99: one pass of the while loop
ProbeRow ==
    /\ pc = "Poll"
    /\ retries < max_retries
    /\ \E o \in ProbeKinds :
         CASE o = "found" ->
                /\ probes' = probes + 1
                /\ download_button' = "fresh"
                /\ rowFound' = TRUE
                /\ pc' = "Ready"
                /\ UNCHANGED <<retries, pollRefreshes, download, result, faults>>
           [] o = "absent" ->
                /\ probes' = probes + 1
                /\ download_button' = "False"
                /\ CountRetry(1)
                /\ UNCHANGED <<rowFound, result, faults>>
           [] o = "absent_refresh_raised" ->
                /\ MayFault
                /\ probes' = probes + 1
                /\ download_button' = "False"
                /\ CountRetry(2)
                /\ faults' = faults + 1
                /\ UNCHANGED <<rowFound, result>>
           [] o = "probe_raised" ->
                /\ MayFault
                /\ probes' = probes + 1
                /\ CountRetry(1)
                /\ faults' = faults + 1
                /\ UNCHANGED <<download_button, rowFound, result>>
           [] o = "handler_refresh_raised" ->
                \* the refresh of line 95 raises inside the except clause
                /\ faults + 1 < MaxFaults
                /\ probes' = probes + 1
                /\ retries' = retries + 1
                /\ pollRefreshes' = pollRefreshes + 1
                /\ pc' = "End" /\ result' = "Raised"
                /\ faults' = faults + 2
                /\ UNCHANGED <<download_button, rowFound, download>>
    /\ UNCHANGED <<lastObs, disabledObs,
                   readyRefreshes, downloadAttempts, clearCalls, clearClicks,
                   closes>>
    /\ UNCHANGED <<lwVars, detVars>>

\* line 79 false: the loop ends with whatever download_button holds
PollExhausted ==
    /\ pc = "Poll"
    /\ ~(retries < max_retries)
    /\ pc' = "Ready"
    /\ UNCHANGED <<result, retries, probes,
                   pollRefreshes, rowFound, download_button, lastObs,
                   disabledObs, readyRefreshes, downloadAttempts, clearCalls,
                   clearClicks, download, closes, faults>>
    /\ UNCHANGED <<lwVars, detVars>>

\* a variant that takes a missing control for one that is not disabled
ReadClassMut(button, cls) ==
    IF button = "fresh" THEN cls ELSE "enabled"

\* line 102: "disabled" in download_button.get_attribute("class"), outside any
\* try. An unbound local, the bool False and a handle of a page since reloaded
\* all raise here. The second argument is the class the page shows. lastObs
\* keeps what was read off a located control.
ReadClass(button, cls) ==
    IF button = "fresh" THEN cls ELSE "Raised"

\* a variant with a retry bound: the first disabled observation ends
\* monitoring_progress with False
CheckDisabledMut ==
    /\ pc = "Ready"
    /\ \E cls \in {"disabled", "enabled"} :
         LET seen == ReadClass(download_button, cls) IN
         CASE seen = "Raised" ->
                /\ pc' = "End" /\ result' = "Raised"
                /\ UNCHANGED <<lastObs, disabledObs, download>>
           [] seen = "disabled" ->
                /\ disabledObs < MaxDisabled
                /\ lastObs' = IF download_button = "fresh" THEN "disabled" ELSE lastObs
                /\ disabledObs' = disabledObs + 1
                /\ pc' = "Return" /\ download' = "False"
                /\ UNCHANGED result
           [] seen = "enabled" ->
                /\ lastObs' = IF download_button = "fresh" THEN "enabled" ELSE lastObs
                /\ pc' = "Download"
                /\ UNCHANGED <<result, disabledObs, download>>
    /\ UNCHANGED <<retries, probes, pollRefreshes,
                   rowFound, download_button, readyRefreshes, downloadAttempts,
                   clearCalls, clearClicks, closes, faults>>
    /\ UNCHANGED <<lwVars, detVars>>

CheckDisabled ==
    /\ pc = "Ready"
    /\ \E cls \in {"disabled", "enabled"} :
         LET seen == ReadClass(download_button, cls) IN
         CASE seen = "Raised" ->
                /\ pc' = "End" /\ result' = "Raised"
                /\ UNCHANGED <<lastObs, disabledObs>>
           [] seen = "disabled" ->
                /\ disabledObs < MaxDisabled
                /\ lastObs' = IF download_button = "fresh" THEN "disabled" ELSE lastObs
                /\ disabledObs' = disabledObs + 1
                /\ pc' = "Refresh"
                /\ UNCHANGED result
           [] seen = "enabled" ->
                /\ lastObs' = IF download_button = "fresh" THEN "enabled" ELSE lastObs
                /\ pc' = "Download"
                /\ UNCHANGED <<result, disabledObs>>
    /\ UNCHANGED <<retries, probes, pollRefreshes,
                   rowFound, download_button, readyRefreshes, downloadAttempts,
                   clearCalls, clearClicks, download, closes, faults>>
    /\ UNCHANGED <<lwVars, detVars>>

RefreshKinds == {"found", "absent", "refresh_raised", "find_raised"}

\* a variant with "if" for "while": on to line 113 after one refresh
AfterRefreshMut == "Download"

\* where the loop body of lines 103-110 leaves control: back at line 102
AfterRefresh == "Ready"

\* lines 103-110: refresh, sleep, find_element again; any fault is swallowed
\* and leaves download_button as it was: still good if the page was not
\* reloaded, stale if it was
RefreshAndRelocate ==
    /\ pc = "Refresh"
    /\ readyRefreshes' = readyRefreshes + 1
    /\ pc' = AfterRefresh
    /\ \E o \in RefreshKinds :
         CASE o = "found" ->
                download_button' = "fresh" /\ UNCHANGED faults
           [] o = "absent" ->
                download_button' = "False" /\ UNCHANGED faults
           [] o = "refresh_raised" ->
                /\ MayFault
                /\ download_button' \in {download_button, "stale"}
                /\ faults' = faults + 1
           [] o = "find_raised" ->
                /\ MayFault
                /\ download_button' = "stale"
                /\ faults' = faults + 1
    /\ UNCHANGED <<result, retries, probes,
                   pollRefreshes, rowFound, lastObs, disabledObs,
                   downloadAttempts, clearCalls, clearClicks, download, closes>>
    /\ UNCHANGED <<lwVars, detVars>>

\* lines 113-115: file_download(xpath, timeout) is called: the wrapper of
\* check_new_file starts
CallFileDownload ==
    /\ pc = "Download"
    /\ downloadAttempts' = downloadAttempts + 1
    /\ d_pc' = "Start"
    /\ pc' = "Downloading"
    /\ UNCHANGED <<dir, initial_files, snapshots, now, timeout, end_time,
                   download_clicked, polls, prev, inTime, d_result>>
    /\ UNCHANGED <<result, retries, probes,
                   pollRefreshes, rowFound, download_button, lastObs,
                   disabledObs, readyRefreshes, clearCalls, clearClicks,
                   download, closes, faults>>
    /\ UNCHANGED lwVars

\* lines 113-115: file_download returns; the value is dropped, a fault of the
\* click escapes
FileDownloadReturns ==
    /\ pc = "Downloading"
    /\ d_pc = "Done"
    /\ IF d_result = "Raised"
         THEN pc' = "End" /\ result' = "Raised"
         ELSE pc' = "Clear" /\ UNCHANGED result
    /\ UNCHANGED <<download, retries, probes, pollRefreshes,
                   rowFound, download_button, lastObs, disabledObs,
                   readyRefreshes, downloadAttempts, clearCalls, clearClicks,
                   closes, faults>>
    /\ UNCHANGED <<lwVars, detVars>>

ClearKinds == {"NotClickable", "True", "False", "Raised"}

\* lines 116-119: click_element on the clear-history control, its result
\* dropped; return True
ClearHistory ==
    /\ pc = "Clear"
    /\ clearCalls' = clearCalls + 1
    /\ \E o \in ClearKinds :
         /\ clearClicks' = IF o = "NotClickable" THEN clearClicks ELSE clearClicks + 1
         /\ IF o = "Raised"
              THEN MayFault /\ Escape /\ UNCHANGED download
              ELSE /\ download' = "True"
                   /\ pc' = "Return"
                   /\ UNCHANGED <<result, faults>>
    /\ UNCHANGED <<retries, probes, pollRefreshes,
                   rowFound, download_button, lastObs, disabledObs,
                   readyRefreshes, downloadAttempts, closes>>
    /\ UNCHANGED <<lwVars, detVars>>

\* lines 51-54: if not download: return False
CheckDownload ==
    /\ pc = "Return"
    /\ IF download /= "True"
         THEN pc' = "End" /\ result' = "False"
         ELSE pc' = "Cleanup" /\ UNCHANGED result
    /\ UNCHANGED <<retries, probes, pollRefreshes,
                   rowFound, download_button, lastObs, disabledObs,
                   readyRefreshes, downloadAttempts, clearCalls, clearClicks,
                   download, closes, faults>>
    /\ UNCHANGED <<lwVars, detVars>>

\* the page the session starts on, and the monitoring popup
MainUrl == <<"a">>
MonitoringUrl == <<"a", "b">>

\* the windows the session may have when line 57 is reached: the first window
\* and the popups opened since
WindowsAtCleanup ==
    {[i \in 1..n |-> IF i = 1 THEN MainUrl ELSE MonitoringUrl] : n \in 1..MaxWindows}

\* driver.close() on the k-th window: its handle is gone from window_handles
Remove(hs, k) == SubSeq(hs, 1, k - 1) \o SubSeq(hs, k + 1, Len(hs))

\* a variant that switches to handles[0]
LastHandleMut(hs) == 1

\* line 60: handles[-1]
LastHandle(hs) == Len(hs)

\* lines 56-62: close the window the session is on, switch to the last handle
\* left if there is one, return True
CleanupOn(before, cur) ==
    /\ pc = "Cleanup"
    /\ closes' = closes + 1
    /\ \E o \in {"True", "Raised"} :
         IF o = "Raised"
           THEN MayFault /\ Escape /\ UNCHANGED <<handles, current>>
           ELSE /\ pc' = "End" /\ result' = "True" /\ UNCHANGED faults
                /\ handles' = Remove(before, cur)
                /\ current' = IF handles' /= <<>>
                                THEN LastHandle(handles')
                                ELSE 0
    /\ UNCHANGED <<retries, probes, pollRefreshes,
                   rowFound, download_button, lastObs, disabledObs,
                   readyRefreshes, downloadAttempts, clearCalls, clearClicks,
                   download>>
    /\ UNCHANGED <<prim, p_pc, p_timeout, p_waited, visible, elements, clicked,
                   lwResults, url, min_windows, scanned, p_result>>
    /\ UNCHANGED <<lwVars, detVars>>

\* in the orchestrator alone the windows are whatever the steps before left
Cleanup ==
    \E before \in WindowsAtCleanup, cur \in 1..MaxWindows :
        cur <= Len(before) /\ CleanupOn(before, cur)

Next ==
    \/ UploadXlsx /\ UNCHANGED <<primVars, pipeVars, esVars, jobVars, chunkVars, connVars>>
    \/ TriggerJob /\ UNCHANGED <<primVars, pipeVars, esVars, jobVars, chunkVars, connVars>>
    \/ LocateMonitoring /\ UNCHANGED <<primVars, pipeVars, esVars, jobVars, chunkVars, connVars>>
    \/ ProbeRow /\ UNCHANGED <<primVars, pipeVars, esVars, jobVars, chunkVars, connVars>>
    \/ PollExhausted /\ UNCHANGED <<primVars, pipeVars, esVars, jobVars, chunkVars, connVars>>
    \/ CheckDisabled /\ UNCHANGED <<primVars, pipeVars, esVars, jobVars, chunkVars, connVars>>
    \/ RefreshAndRelocate /\ UNCHANGED <<primVars, pipeVars, esVars, jobVars, chunkVars, connVars>>
    \/ CallFileDownload /\ UNCHANGED <<primVars, pipeVars, esVars, jobVars, chunkVars, connVars>>
    \/ FileDownloadReturns /\ UNCHANGED <<primVars, pipeVars, esVars, jobVars, chunkVars, connVars>>
    \/ ClearHistory /\ UNCHANGED <<primVars, pipeVars, esVars, jobVars, chunkVars, connVars>>
    \/ CheckDownload /\ UNCHANGED <<primVars, pipeVars, esVars, jobVars, chunkVars, connVars>>
    \/ Cleanup /\ UNCHANGED <<pipeVars, esVars, jobVars, chunkVars, connVars>>
    \/ NextDetector

Spec == Init /\ [][Next]_vars

\* ------------------------------------------------------------ C2 .. C8
Ended == pc = "End"

\* the monitoring poll used up its budget without ever being given the control
BudgetExhausted == ~rowFound /\ retries >= max_retries

\* C2: when the download step fails (the wrapped file_download returns False:
\* the click failed, or no finished new file came before the timeout),
\* start_geocoding returns False.
C2_FailedDownloadReturnsFalse ==
    (Ended /\ faults = 0 /\ d_result = "False") => result = "False"

\* C3: the clear-history control is clicked only after file_download has
\* returned True; after False no clear-history click is issued.
C3_ClearOnlyAfterSuccess ==
    clearCalls > 0 => d_result = "True"

\* C4: when the control is absent on every probe until the retry budget is
\* exhausted, monitoring_progress (and start_geocoding) ends with False: it
\* does not raise, never enters the readiness loop, never downloads, never
\* clicks clear-history.
C4_ExhaustedReturnsFalse ==
    (Ended /\ faults = 0 /\ BudgetExhausted) =>
        /\ result = "False"
        /\ lastObs = "none" /\ disabledObs = 0 /\ readyRefreshes = 0
        /\ downloadAttempts = 0 /\ clearCalls = 0

\* C5: control absent for the first k < 30 probes and present on the next: the
\* poll ends after exactly k+1 probes with k refreshes between them and the
\* readiness check follows; absent on every probe of the budget: the
\* orchestrator fails with the explicit failure result.
C5_PollProbes ==
    /\ (rowFound /\ faults = 0) =>
          /\ retries < max_retries
          /\ probes = retries + 1
          /\ pollRefreshes = retries
          /\ pc /= "Poll"
    /\ (Ended /\ faults = 0 /\ BudgetExhausted) => result = "False"

\* C6: control disabled for m successive observations, then enabled: exactly m
\* refreshes are issued and file_download is attempted exactly once, after the
\* m-th refresh and never before it.
C6_DownloadAfterRefreshes ==
    /\ downloadAttempts <= 1
    /\ (pc = "Download" \/ downloadAttempts = 1) =>
          (readyRefreshes = disabledObs /\ lastObs = "enabled")
    /\ pc = "Ready" => (downloadAttempts = 0 /\ readyRefreshes = disabledObs)
    /\ pc = "Refresh" => (downloadAttempts = 0 /\ readyRefreshes + 1 = disabledObs)

C6_Witness ==
    /\ downloadAttempts = 1 /\ disabledObs = MaxDisabled
    /\ readyRefreshes = MaxDisabled /\ lastObs = "enabled"

\* C7: the download step is invoked only after the most recent observation of
\* a located control showed a class without "disabled": never on an absent
\* control, a failed lookup or a swallowed fault.
C7_ReadyOnlyWhenSeenEnabled ==
    (pc = "Download" \/ downloadAttempts > 0) =>
        /\ rowFound
        /\ download_button = "fresh"
        /\ lastObs = "enabled"

C7_Witness ==
    /\ downloadAttempts = 1 /\ faults = 1 /\ disabledObs >= 1 /\ lastObs = "enabled"

\* the run of C8: no fault, the row found on probe 3, the control disabled for
\* two refreshes and then enabled, the download click succeeded
Scenario8 ==
    /\ Ended /\ faults = 0
    /\ rowFound /\ probes = 3
    /\ disabledObs = 2 /\ readyRefreshes = 2 /\ lastObs = "enabled"
    /\ download_clicked = "True"

Success8 ==
    /\ result = "True"
    /\ d_result = "True"
    /\ clearCalls = 1 /\ clearClicks <= 1

\* C8: in that run, if the directory gains result.shp before the timeout,
\* start_geocoding returns True and issues exactly one clear-history click,
\* after the detector reported success.
C8_EndToEndSuccess ==
    (Scenario8 /\ ResultShp \in dir /\ inTime) => Success8

\* ------------------------------------------------------------------ C21
\* C21: the cleanup of start_geocoding comes only after monitoring_progress
\* has returned (true, with the download and the clear-history step behind
\* it); driver.close() is called exactly once; and when start_geocoding
\* returns True the session is on the last of the handles that remain, if
\* any remains.
C21_CleanupOnce ==
    /\ closes <= 1
    /\ closes = 1 =>
          (download = "True" /\ pc = "End" /\ downloadAttempts = 1
           /\ clearCalls = 1)
    /\ pc = "Cleanup" => (download = "True" /\ closes = 0)
    /\ (Ended /\ result = "True") =>
          /\ closes = 1
          /\ handles /= <<>> => current = Len(handles)
          /\ handles = <<>> => current = 0

C21_Witness ==
    /\ Ended /\ result = "True" /\ closes = 1
    /\ Len(handles) = MaxWindows - 1 /\ current = MaxWindows - 1

\* ------------------------------------------------------------------ C28
\* the readiness loop alone: line 102 is reached with the control the poll
\* loop found, after any number of probes that did not find it
InitReadiness ==
    /\ LwIdle
    /\ PrimIdle
    /\ PipeIdle
    /\ EsIdle
    /\ JobIdle
    /\ ChunkIdle
    /\ ConnIdle
    /\ d_pc = "Idle"
    /\ dir \in SUBSET {FileA}
    /\ initial_files = {} /\ snapshots = 0
    /\ now = 0
    /\ timeout \in Timeouts
    /\ end_time = 0
    /\ download_clicked = "none"
    /\ polls = 0 /\ prev = 0 /\ inTime = FALSE
    /\ d_result = "none"
    /\ pc = "Ready" /\ result = "none"
    /\ retries \in 0..(max_retries - 1)
    /\ probes = retries + 1 /\ pollRefreshes = retries
    /\ rowFound = TRUE /\ download_button = "fresh" /\ lastObs = "none"
    /\ disabledObs = 0 /\ readyRefreshes = 0 /\ downloadAttempts = 0
    /\ clearCalls = 0 /\ clearClicks = 0 /\ download = "none" /\ closes = 0
    /\ faults = 0

NextReadiness ==
    \/ CheckDisabled /\ UNCHANGED <<primVars, pipeVars, esVars, jobVars, chunkVars, connVars>>
    \/ RefreshAndRelocate /\ UNCHANGED <<primVars, pipeVars, esVars, jobVars, chunkVars, connVars>>
    \/ CallFileDownload /\ UNCHANGED <<primVars, pipeVars, esVars, jobVars, chunkVars, connVars>>

\* monitoring_progress runs in one thread and waits on nothing but the
\* browser and time.sleep: a step that is due is taken
SpecReadiness ==
    InitReadiness /\ [][NextReadiness]_vars /\ WF_vars(NextReadiness)

\* C28: the readiness loop has no retry bound. While no observation has
\* shown the control enabled, the download is not attempted and
\* monitoring_progress does not return (it can only be ended by a fault);
\* every disabled observation is followed by a refresh and a new locate, and
\* these by the next observation; once the control is seen enabled the
\* download is eventually attempted.
C28_UnboundedReadiness ==
    /\ [](lastObs /= "enabled" =>
            /\ downloadAttempts = 0 /\ download = "none"
            /\ pc \in {"Ready", "Refresh", "End"}
            /\ pc = "End" => result = "Raised")
    /\ [][ /\ (pc = "Ready" /\ disabledObs' = disabledObs + 1) =>
                 (pc' = "Refresh" /\ readyRefreshes = disabledObs)
           /\ (pc = "Refresh" /\ pc' /= pc) =>
                 (pc' = "Ready" /\ readyRefreshes' = readyRefreshes + 1) ]_vars
    /\ (lastObs = "enabled") ~> (downloadAttempts = 1)

C28_Witness ==
    /\ downloadAttempts = 1 /\ lastObs = "enabled"
    /\ disabledObs = MaxDisabled /\ readyRefreshes = MaxDisabled

\* ------------------------------------------------------------------ C24
\* the probes of the poll loop that did not give the control
FailedProbes == probes - (IF rowFound THEN 1 ELSE 0)

\* C24: the poll loop makes at most 30 probes; every probe that found the
\* control absent or raised has taken exactly one unit of the budget and was
\* followed by exactly one page refresh; no fault of a probe leaves
\* monitoring_progress while the loop runs.
C24_OneUnitPerProbe ==
    /\ probes <= max_retries
    /\ retries = FailedProbes
    /\ pollRefreshes = FailedProbes
    /\ (probes >= 1 /\ ~rowFound /\ retries < max_retries) => result /= "Raised"

\* ------------------------------------------------------------------ C25
\* C25: in the readiness loop a control that is absent after the refresh
\* (find_element gave False) counts as Processing: monitoring_progress goes
\* on refreshing and re-locating, it neither raises nor goes on to the
\* download.
C25_AbsentIsProcessing ==
    (rowFound /\ download_button = "False" /\ downloadAttempts = 0) =>
        (pc \in {"Ready", "Refresh"} /\ result = "none")

\* =================================================================
\* Action primitives of SeleniumScraper
\* =================================================================

Primitives == {"find_element", "find_all_elements", "send_key", "click_element",
               "click_elements", "select_by_option_value", "switch_to_window",
               "switch_to_iframe"}

\* URLs and the url argument, as strings over two characters
Urls == {<<"a">>, <<"a", "b">>, <<"b", "b">>}
Subs == {<<"a", "b">>, <<"b">>}

\* line 227: url in self.driver.current_url
Contains(sub, s) ==
    \E i \in 0..(Len(s) - Len(sub)) : SubSeq(s, i + 1, i + Len(sub)) = sub

\* a primitive is called on a live session: the target may be there already,
\* come while the primitive waits, or never come
InitPrimitives ==
    /\ LwIdle
    /\ DetIdle
    /\ GeoIdle
    /\ PipeIdle
    /\ EsIdle
    /\ JobIdle
    /\ ChunkIdle
    /\ ConnIdle
    /\ prim \in Primitives \cup {"fetch_page"}
    /\ p_pc = IF prim = "fetch_page" THEN "Get" ELSE "Wait"
    /\ p_timeout \in 1..MaxWait
    /\ p_waited = 0
    /\ elements = 0 /\ clicked = <<>> /\ lwResults = <<>>
    /\ current = 1 /\ scanned = 0 /\ p_result = "none"
    /\ IF prim = "switch_to_window"
         THEN /\ visible = 0
              /\ handles \in {<<u>> : u \in Urls}
                             \cup {<<u, v>> : u \in Urls, v \in Urls}
              /\ url \in Subs
              /\ min_windows \in 1..MaxWindows
         ELSE IF prim = "fetch_page"
           THEN /\ visible = 0
                /\ handles = <<MainUrl>>
                /\ url \in Urls
                /\ min_windows = 0
           ELSE /\ visible \in 0..MaxElements
                /\ handles = <<MainUrl>>
                /\ url = <<>>
                /\ min_windows = 0

\* the condition handed to WebDriverWait.until: lines 95, 120, 142 (the xpath
\* matches and the elements are visible, or clickable) and line 222
WaitCond ==
    IF prim = "switch_to_window" THEN Len(handles) >= min_windows
                                 ELSE visible >= 1

\* where each primitive goes on once its wait has returned
AfterWait(p) ==
    CASE p \in {"find_element", "find_all_elements"} -> "End"
      [] p \in {"send_key", "select_by_option_value", "switch_to_iframe"} -> "Act"
      [] p \in {"click_element", "click_elements"} -> "Click"
      [] p = "switch_to_window" -> "Scan"

\* a variant in which send_key uses what find_element gave without the test of
\* line 73
OnTimeoutMut(p) == IF p = "send_key" THEN "Raised" ELSE "False"

\* what a primitive gives when its wait ran out: the False of the except
\* TimeoutException clauses (lines 98-101, 123-125, 144-146, 231-233), handed on
\* by the callers of find_element and find_all_elements (lines 73-78, 165-173,
\* 193-202, 249-253)
OnTimeout(p) == "False"

\* one poll of WebDriverWait(self.driver, timeout).until(...)
WaitForTarget ==
    /\ p_pc = "Wait"
    /\ IF WaitCond
         THEN /\ elements' = IF prim = "switch_to_window" THEN 0
                             ELSE IF prim \in {"find_all_elements", "click_elements"}
                               THEN visible
                               ELSE 1
              /\ p_pc' = AfterWait(prim)
              /\ p_result' = CASE prim = "find_element" -> "Element"
                               [] prim = "find_all_elements" -> "Elements"
                               [] OTHER -> p_result
              /\ UNCHANGED p_waited
         ELSE /\ p_waited' = p_waited + 1
              /\ IF p_waited + 1 >= p_timeout
                   THEN p_pc' = "End" /\ p_result' = OnTimeout(prim)
                   ELSE UNCHANGED <<p_pc, p_result>>
              /\ UNCHANGED elements
    /\ UNCHANGED <<prim, p_timeout, visible, clicked, lwResults, handles, url,
                   min_windows, current, scanned>>
    /\ UNCHANGED <<lwVars, detVars, geoVars, pipeVars, esVars, jobVars, chunkVars, connVars>>

ActKinds == {"done", "no_option", "not_select"}

\* lines 74-76 (send_keys), 194-200 (Select, select_by_value) and 250-251
\* (switch_to.frame). select_by_value is inside try / except Exception; Select()
\* of line 194 is not, and raises on an element that is no <select>.
Act ==
    /\ p_pc = "Act"
    /\ \E o \in ActKinds :
         /\ prim /= "select_by_option_value" => o = "done"
         /\ p_result' = CASE o = "done" -> "True"
                          [] o = "no_option" -> "False"
                          [] o = "not_select" -> "Raised"
    /\ p_pc' = "End"
    /\ UNCHANGED <<prim, p_timeout, p_waited, visible, elements, clicked,
                   lwResults, handles, url, min_windows, current, scanned>>
    /\ UNCHANGED <<lwVars, detVars, geoVars, pipeVars, esVars, jobVars, chunkVars, connVars>>

\* line 29: the default of every timeout parameter, the longest wait of the
\* model
TIMEOUT == MaxWait

\* _wait_for_page_load(t) is entered right after a navigation or a click: the
\* page may be loading
StartLoadWait(t) ==
    /\ lw_pc' = "CheckingAlert"
    /\ lw_timeout' = t
    /\ waited' = 0
    /\ alertsOpen' = 0 /\ presented' = 0 /\ accepts' = 0
    /\ pageReady' \in BOOLEAN
    /\ restarts' = 0
    /\ lastCheck' = "None"
    /\ UNCHANGED windowOpen

\* line 166: for element in elements, the list taken in its order
NextElement == Len(clicked) + 1

\* fetch_page lines 46-47: driver.get(url), then
\* _wait_for_page_load(timeout=timeout)
FetchPage ==
    /\ p_pc = "Get"
    /\ handles' = [handles EXCEPT ![current] = url]
    /\ p_pc' = "LoadWait"
    /\ StartLoadWait(p_timeout)
    /\ UNCHANGED <<prim, p_timeout, p_waited, visible, elements, clicked,
                   lwResults, url, min_windows, current, scanned, p_result>>
    /\ UNCHANGED <<detVars, geoVars, pipeVars, esVars, jobVars, chunkVars, connVars>>

\* lines 148-149 and 167-168: element.click(), then _wait_for_page_load() is
\* entered with no argument: its timeout is the default
Click ==
    /\ p_pc = "Click"
    /\ clicked' = Append(clicked, NextElement)
    /\ p_pc' = "LoadWait"
    /\ StartLoadWait(TIMEOUT)
    /\ UNCHANGED <<prim, p_timeout, p_waited, visible, elements, lwResults,
                   handles, url, min_windows, current, scanned, p_result>>
    /\ UNCHANGED <<detVars, geoVars, pipeVars, esVars, jobVars, chunkVars, connVars>>

LwEnded == lw_pc \in {"Done", "TimedOut", "Raised"}

\* a variant of _wait_for_page_load that reports a page that never became
\* complete as loaded
LwOutcomeMut ==
    CASE lw_pc = "Done" -> "True"
      [] lw_pc = "TimedOut" -> "True"
      [] lw_pc = "Raised" -> "Raised"
      [] OTHER -> "none"

\* what _wait_for_page_load gives: True (line 427), False (line 434), or the
\* exception no clause of lines 428-432 names
LwOutcome ==
    CASE lw_pc = "Done" -> "True"
      [] lw_pc = "TimedOut" -> "False"
      [] lw_pc = "Raised" -> "Raised"
      [] OTHER -> "none"

\* a variant of click_elements that does not look at what Load-Wait gave
LoadWaitFailedMut(o) == FALSE

\* line 168: if not self._wait_for_page_load()
LoadWaitFailed(o) == o = "False"

\* line 149: return self._wait_for_page_load(); lines 47-51: True or False as
\* Load-Wait gave; lines 168-171: the test, then the next element or return
\* True
AfterLoadWait ==
    /\ p_pc = "LoadWait"
    /\ LwEnded
    /\ lwResults' = Append(lwResults, LwOutcome)
    /\ IF LwOutcome = "Raised"
         THEN p_pc' = "End" /\ p_result' = "Raised"
         ELSE IF prim \in {"click_element", "fetch_page"}
           THEN p_pc' = "End" /\ p_result' = LwOutcome
           ELSE IF LoadWaitFailed(LwOutcome)
             THEN p_pc' = "End" /\ p_result' = "False"
             ELSE IF Len(clicked) < elements
               THEN p_pc' = "Click" /\ UNCHANGED p_result
               ELSE p_pc' = "End" /\ p_result' = "True"
    /\ UNCHANGED <<prim, p_timeout, p_waited, visible, elements, clicked,
                   handles, url, min_windows, current, scanned>>
    /\ UNCHANGED <<lwVars, detVars, geoVars, pipeVars, esVars, jobVars, chunkVars, connVars>>

\* a variant that does not return at the first window that matches but goes
\* through all the handles
ScanHandlesMut ==
    /\ p_pc = "Scan"
    /\ scanned' = scanned + 1
    /\ current' = scanned + 1
    /\ LET hit == Contains(url, handles[scanned + 1]) \/ p_result = "True" IN
       IF scanned + 1 = Len(handles)
         THEN p_pc' = "End" /\ p_result' = IF hit THEN "True" ELSE "False"
         ELSE /\ p_result' = IF hit THEN "True" ELSE p_result
              /\ UNCHANGED p_pc
    /\ UNCHANGED <<prim, p_timeout, p_waited, visible, elements, clicked,
                   lwResults, handles, url, min_windows>>
    /\ UNCHANGED <<lwVars, detVars, geoVars, pipeVars, esVars, jobVars, chunkVars, connVars>>

\* lines 224-230: one pass of the for loop over window_handles
ScanHandles ==
    /\ p_pc = "Scan"
    /\ scanned' = scanned + 1
    /\ current' = scanned + 1
    /\ IF Contains(url, handles[scanned + 1])
         THEN p_pc' = "End" /\ p_result' = "True"
         ELSE IF scanned + 1 = Len(handles)
           THEN p_pc' = "End" /\ p_result' = "False"
           ELSE UNCHANGED <<p_pc, p_result>>
    /\ UNCHANGED <<prim, p_timeout, p_waited, visible, elements, clicked,
                   lwResults, handles, url, min_windows>>
    /\ UNCHANGED <<lwVars, detVars, geoVars, pipeVars, esVars, jobVars, chunkVars, connVars>>

\* ---- the page and the browser, while a primitive waits
ElementsAppear ==
    /\ p_pc = "Wait" /\ prim /= "switch_to_window"
    /\ visible < MaxElements
    /\ visible' \in (visible + 1)..MaxElements
    /\ UNCHANGED <<prim, p_pc, p_timeout, p_waited, elements, clicked,
                   lwResults, handles, url, min_windows, current, scanned,
                   p_result>>
    /\ UNCHANGED <<lwVars, detVars, geoVars, pipeVars, esVars, jobVars, chunkVars, connVars>>

WindowOpens ==
    /\ p_pc = "Wait" /\ prim = "switch_to_window"
    /\ Len(handles) < MaxWindows
    /\ \E u \in Urls : handles' = Append(handles, u)
    /\ UNCHANGED <<prim, p_pc, p_timeout, p_waited, visible, elements, clicked,
                   lwResults, url, min_windows, current, scanned, p_result>>
    /\ UNCHANGED <<lwVars, detVars, geoVars, pipeVars, esVars, jobVars, chunkVars, connVars>>

NextPrimitives ==
    \/ WaitForTarget
    \/ Act
    \/ FetchPage
    \/ Click
    \/ AfterLoadWait
    \/ ScanHandles
    \/ ElementsAppear
    \/ WindowOpens
    \/ NextLoadWait

SpecPrimitives == InitPrimitives /\ [][NextPrimitives]_vars

\* ------------------------------------------------------------------ C11
WaitTimedOut == p_pc = "End" /\ p_waited >= p_timeout

NoWindowMatches == \A i \in 1..Len(handles) : ~Contains(url, handles[i])

\* the target of the primitive was not there within the timeout: the wait ran
\* out, or (switch_to_window) no window has the URL
TargetAbsent ==
    \/ WaitTimedOut
    \/ prim = "switch_to_window" /\ p_pc = "End" /\ NoWindowMatches

\* C11: for each of the eight primitives, a target that is absent within the
\* timeout yields False as the return value, and no exception: whenever a
\* primitive raises, its target was there. On a wait that ran out nothing was
\* clicked and Load-Wait was not entered.
C11_AbsentYieldsFalse ==
    prim \in Primitives =>
        /\ TargetAbsent => p_result = "False"
        /\ p_result = "Raised" => ~TargetAbsent
        /\ WaitTimedOut => (clicked = <<>> /\ lwResults = <<>> /\ lw_pc = "Idle")

C11_Witness ==
    /\ WaitTimedOut /\ p_timeout = MaxWait
    /\ prim = "send_key" /\ p_result = "False"

\* ------------------------------------------------------------------ C18
\* C18: click_element. If the element does not become clickable within the
\* timeout: no click, Load-Wait not entered, False. Otherwise: exactly one
\* click, Load-Wait entered only after it and run once, and click_element ends
\* as that Load-Wait ended: True for a loaded page, False for one not loaded
\* in time (and the exception of a Load-Wait that raised).
C18_ClickThenLoadWait ==
    prim = "click_element" =>
        /\ Len(clicked) <= 1
        /\ WaitTimedOut =>
              (clicked = <<>> /\ lw_pc = "Idle" /\ lwResults = <<>>
               /\ p_result = "False")
        /\ (lw_pc /= "Idle" \/ p_pc = "LoadWait") => clicked = <<1>>
        /\ (p_pc = "End" /\ ~WaitTimedOut) =>
              /\ clicked = <<1>>
              /\ Len(lwResults) = 1
              /\ \/ lw_pc = "Done" /\ p_result = "True"
                 \/ lw_pc = "TimedOut" /\ p_result = "False"
                 \/ lw_pc = "Raised" /\ p_result = "Raised"

C18_Witness ==
    /\ prim = "click_element" /\ p_pc = "End" /\ clicked = <<1>>
    /\ lw_pc = "TimedOut" /\ p_result = "False" /\ accepts >= 1

\* ------------------------------------------------------------------ C19
AllLoaded == \A i \in 1..Len(lwResults) : lwResults[i] = "True"

\* C19: click_elements clicks the matched elements in list order, one Load-Wait
\* after each click and before the next; an element is clicked only if every
\* Load-Wait before it succeeded, so the first failed Load-Wait is the last
\* thing done and gives False; True is returned exactly when every matched
\* element was clicked and every Load-Wait succeeded; no match gives False
\* with nothing clicked.
C19_ClickAllInOrder ==
    prim = "click_elements" =>
        /\ Len(clicked) <= elements
        /\ \A i \in 1..Len(clicked) : clicked[i] = i
        /\ (p_pc = "LoadWait") <=> (Len(lwResults) = Len(clicked) - 1)
        /\ (p_pc /= "LoadWait") => (Len(lwResults) = Len(clicked))
        /\ \A i \in 1..Len(lwResults) :
              i < Len(clicked) => lwResults[i] = "True"
        /\ p_pc = "End" =>
              /\ (p_result = "True") <=>
                    (elements >= 1 /\ Len(clicked) = elements /\ AllLoaded)
              /\ elements = 0 => (p_result = "False" /\ clicked = <<>>)
              /\ (\E i \in 1..Len(lwResults) : lwResults[i] = "False") =>
                    (p_result = "False" /\ lwResults[Len(clicked)] = "False")

C19_Witness ==
    /\ prim = "click_elements" /\ p_pc = "End" /\ elements = MaxElements
    /\ clicked = <<1>> /\ lwResults = <<"False">> /\ p_result = "False"

\* ------------------------------------------------------------------ C20
\* C20: switch_to_window returns True exactly when the number of windows
\* reached min_windows before the wait ran out and some handle's URL contains
\* the url argument; then the session is on the first such handle in handle
\* order. When the wait ran out it returns False and switch_to.window was not
\* called: the session is on the window it was on.
C20_SwitchToWindow ==
    (prim = "switch_to_window" /\ p_pc = "End") =>
        /\ p_result \in {"True", "False"}
        /\ (p_result = "True") <=>
              (p_waited < p_timeout /\ Len(handles) >= min_windows
               /\ ~NoWindowMatches)
        /\ p_result = "True" =>
              /\ Contains(url, handles[current])
              /\ \A j \in 1..(current - 1) : ~Contains(url, handles[j])
        /\ WaitTimedOut =>
              (p_result = "False" /\ scanned = 0 /\ current = 1
               /\ Len(handles) < min_windows)

C20_Witness ==
    /\ prim = "switch_to_window" /\ p_pc = "End" /\ p_result = "True"
    /\ Len(handles) = MaxWindows /\ current = 2
    /\ Contains(url, handles[MaxWindows]) /\ p_waited >= 1

\* ------------------------------------------------------------------ C27
\* the primitives that run Load-Wait
LoadWaiters == {"fetch_page", "click_element", "click_elements"}

\* C27: whenever one of fetch_page, click_element and click_elements runs
\* Load-Wait, the readiness wait of that Load-Wait has the timeout the caller
\* gave the primitive.
C27_LoadWaitUsesCallerTimeout ==
    (prim \in LoadWaiters /\ lw_pc /= "Idle") => lw_timeout = p_timeout

\* ------------------------------------------------------------------ C30
\* line 164: click_elements locates its list once, before the loop, when no
\* Load-Wait of the call has run yet
LoadWaitsAtLocate == 0

\* the Load-Waits of the call that had run when the i-th click was made
LoadWaitsBefore(i) == i - 1

\* C30: click_elements never clicks a handle that was located before an
\* earlier click's Load-Wait: at every click, no Load-Wait has run since the
\* handle was located.
C30_NoHandleAcrossLoadWait ==
    prim = "click_elements" =>
        \A i \in 1..Len(clicked) : LoadWaitsBefore(i) <= LoadWaitsAtLocate

\* ------------------------------------------------------------------ C35
\* C35: when switch_to_window returns False the session is on the window it
\* was on when the call was made (the first one).
C35_FalseLeavesWindow ==
    (prim = "switch_to_window" /\ p_pc = "End" /\ p_result = "False") =>
        current = 1

\* =================================================================
\* The pipeline script: run() = collect, refine, geocoding, make_shp
\* =================================================================

\* collect() lines 33-63: five primitives in turn, each followed by
\* "if not ...: raise Exception"
CollectSteps == <<"fetch_page", "send_key", "search", "latest", "file_download">>

InitPipeline ==
    /\ LwIdle
    /\ DetIdle
    /\ GeoIdle
    /\ PrimIdle
    /\ EsIdle
    /\ JobIdle
    /\ ChunkIdle
    /\ ConnIdle
    /\ stage = "collect"
    /\ sessions = {}
    /\ launched = <<>>
    /\ chunks \in {1..n : n \in 0..MaxChunks}
    /\ chunk = 0
    /\ geocoded = <<>>
    /\ done = <<>>

\* a step of run() was executed: it is added to the steps done so far
Did(step) == done' = Append(done, step)

\* a variant of the constructor that tries the launch a second time
LaunchMut(who, next) ==
    \/ /\ sessions' = sessions \cup {who}
       /\ launched' = Append(launched, who)
       /\ stage' = next
    \/ /\ stage' = IF \E i \in 1..Len(done) : done[i] = stage
                   THEN "Failed" ELSE stage
       /\ UNCHANGED <<sessions, launched>>

\* SeleniumScraper.__init__ line 33: a browser is started, or the start fails
\* and the exception ends run()
Launch(who, next) ==
    \/ /\ sessions' = sessions \cup {who}
       /\ launched' = Append(launched, who)
       /\ stage' = next
    \/ /\ stage' = "Failed"
       /\ UNCHANGED <<sessions, launched>>

\* line 30
CreateCollector ==
    /\ stage = "collect"
    /\ Launch("collector", CollectSteps[1])
    /\ UNCHANGED <<chunks, chunk, geocoded>>
    /\ Did(stage)
    /\ UNCHANGED <<lwVars, detVars, geoVars, primVars, esVars, jobVars, chunkVars, connVars>>

\* lines 33-63: a step that gives False raises, a step that raises raises; in
\* both cases run() ends at line 243 and end_scraping is not reached
CollectStep ==
    /\ \E i \in 1..Len(CollectSteps) :
         /\ stage = CollectSteps[i]
         /\ \E o \in Outcomes :
              stage' = IF o /= "True" THEN "Failed"
                       ELSE IF i < Len(CollectSteps) THEN CollectSteps[i + 1]
                       ELSE "end_scraping"
    /\ UNCHANGED <<sessions, launched, chunks, chunk, geocoded>>
    /\ Did(stage)
    /\ UNCHANGED <<lwVars, detVars, geoVars, primVars, esVars, jobVars, chunkVars, connVars>>

\* a variant of end_scraping that leaves the browser running
QuitMut(alive, who) == alive

\* driver.quit(): selenium_scraper.py lines 330 and 335
Quit(alive, who) == alive \ {who}

\* line 66, end_scraping (selenium_scraper.py 305-336): quit on both ways out
EndScraping ==
    /\ stage = "end_scraping"
    /\ sessions' = Quit(sessions, "collector")
    /\ stage' = "refine"
    /\ UNCHANGED <<launched, chunks, chunk, geocoded>>
    /\ Did(stage)
    /\ UNCHANGED <<lwVars, detVars, geoVars, primVars, esVars, jobVars, chunkVars, connVars>>

\* lines 69-137: refine() ends, or raises
Refine ==
    /\ stage = "refine"
    /\ stage' \in {"geocoding", "Failed"}
    /\ UNCHANGED <<sessions, launched, chunks, chunk, geocoded>>
    /\ Did(stage)
    /\ UNCHANGED <<lwVars, detVars, geoVars, primVars, esVars, jobVars, chunkVars, connVars>>

\* line 142, Geocoder.__init__ (geocoder.py 16-17)
CreateGeocoder ==
    /\ stage = "geocoding"
    /\ Launch("geocoder", "connect")
    /\ UNCHANGED <<chunks, chunk, geocoded>>
    /\ Did(stage)
    /\ UNCHANGED <<lwVars, detVars, geoVars, primVars, esVars, jobVars, chunkVars, connVars>>

\* lines 143-145: connect_to_platform gives True, or gives False and line 145
\* raises, or raises itself
Connect ==
    /\ stage = "connect"
    /\ \E o \in Outcomes : stage' = IF o = "True" THEN "chunks" ELSE "Failed"
    /\ UNCHANGED <<sessions, launched, chunks, chunk, geocoded>>
    /\ Did(stage)
    /\ UNCHANGED <<lwVars, detVars, geoVars, primVars, esVars, jobVars, chunkVars, connVars>>

\* the chunks start_geocoding was called with
Handed == {geocoded[i].file : i \in 1..Len(geocoded)}

\* lines 149-151: the next chunk of the set get_all_files gave (a set: in no
\* particular order) is handed to start_geocoding
CallStartGeocoding ==
    /\ stage = "chunks"
    /\ \E c \in chunks \ Handed :
         /\ chunk' = c
         /\ stage' = "start_geocoding"
    /\ UNCHANGED <<sessions, launched, chunks, geocoded>>
    /\ Did(stage)
    /\ UNCHANGED <<lwVars, detVars, geoVars, primVars, esVars, jobVars, chunkVars, connVars>>

\* a variant of the loop without the test of line 152
NotGeocodedMut(o) == FALSE

\* line 152: if not geocoded
NotGeocoded(o) == o = "False"

\* lines 151-153: start_geocoding returns True or False, or raises (the
\* exception leaves the loop and geocoding()); on False line 153 raises
StartGeocodingReturns ==
    /\ stage = "start_geocoding"
    /\ \E o \in Outcomes :
         /\ geocoded' = Append(geocoded, [file |-> chunk, result |-> o])
         /\ stage' = IF o = "Raised" THEN "Failed"
                     ELSE IF NotGeocoded(o) THEN "Failed"
                     ELSE "chunks"
    /\ chunk' = 0
    /\ UNCHANGED <<sessions, launched, chunks>>
    /\ Did(stage)
    /\ UNCHANGED <<lwVars, detVars, geoVars, primVars, esVars, jobVars, chunkVars, connVars>>

\* lines 155-158 and make_shp (161-232): after the last chunk the results are
\* unpacked and the shapefiles built, or one of the two raises
ExtractAndMakeShp ==
    /\ stage = "chunks"
    /\ chunks \ Handed = {}
    /\ stage' \in {"Completed", "Failed"}
    /\ UNCHANGED <<sessions, launched, chunks, chunk, geocoded>>
    /\ Did(stage)
    /\ UNCHANGED <<lwVars, detVars, geoVars, primVars, esVars, jobVars, chunkVars, connVars>>

NextPipeline ==
    \/ CreateCollector
    \/ CollectStep
    \/ EndScraping
    \/ Refine
    \/ CreateGeocoder
    \/ Connect
    \/ CallStartGeocoding
    \/ StartGeocodingReturns
    \/ ExtractAndMakeShp

SpecPipeline == InitPipeline /\ [][NextPipeline]_vars

\* ------------------------------------------------------------------ C16
\* C16: the batch driver hands the chunks to start_geocoding one at a time,
\* each at most once, and only while every start_geocoding before it returned
\* True: once one returned False or raised, the run has failed and no further
\* chunk is handed over (so none is uploaded, triggered or polled).
C16_BatchAbortsOnFirstFailure ==
    /\ \A i \in 1..Len(geocoded) :
          i < Len(geocoded) => geocoded[i].result = "True"
    /\ \A i, j \in 1..Len(geocoded) :
          i /= j => geocoded[i].file /= geocoded[j].file
    /\ chunk /= 0 =>
          /\ stage = "start_geocoding"
          /\ chunk \in chunks \ Handed
          /\ \A i \in 1..Len(geocoded) : geocoded[i].result = "True"
    /\ (\E i \in 1..Len(geocoded) : geocoded[i].result /= "True") =>
          (stage = "Failed" /\ chunk = 0)

C16_Witness ==
    /\ stage = "Failed" /\ Cardinality(chunks) = MaxChunks
    /\ Len(geocoded) = 2
    /\ geocoded[1].result = "True" /\ geocoded[2].result = "False"

\* ------------------------------------------------------------------ C17
\* C17: at every point of the run at most one browser session is alive; the
\* Geocoder's session is created only after the collector's was terminated,
\* it is created once, and every start_geocoding of the batch runs on it.
C17_OneSessionAtATime ==
    /\ Cardinality(sessions) <= 1
    /\ "geocoder" \in sessions =>
          ("collector" \notin sessions /\ launched = <<"collector", "geocoder">>)
    /\ Cardinality({i \in 1..Len(launched) : launched[i] = "geocoder"}) <= 1
    /\ (chunk /= 0 \/ geocoded /= <<>>) => sessions = {"geocoder"}

C17_Witness ==
    /\ stage = "start_geocoding" /\ Len(geocoded) = MaxChunks - 1
    /\ sessions = {"geocoder"} /\ launched = <<"collector", "geocoder">>

\* ------------------------------------------------------------------ C22
\* how many times a step of run() was executed
Count(step) == Cardinality({i \in 1..Len(done) : done[i] = step})

\* the run failed in the given step, the last one executed
FailedIn(step) == stage = "Failed" /\ done /= <<>> /\ done[Len(done)] = step

\* C22: a browser that cannot be launched is fatal and not retried: each of
\* the two constructor calls of the run is executed at most once; when the
\* launch in it fails the run has failed with no session created by it, and
\* no later step (the collection, refine, the geocoding of any chunk,
\* make_shp) is executed; nothing is executed after the run failed or ended.
C22_LaunchFailureIsFatal ==
    /\ Count("collect") <= 1
    /\ Count("geocoding") <= 1
    /\ \A i \in 1..Len(done) : done[i] \notin {"Failed", "Completed"}
    /\ FailedIn("collect") =>
          (done = <<"collect">> /\ sessions = {} /\ launched = <<>>
           /\ geocoded = <<>>)
    /\ FailedIn("geocoding") =>
          /\ sessions = {} /\ launched = <<"collector">>
          /\ geocoded = <<>> /\ chunk = 0
          /\ Count("connect") = 0 /\ Count("chunks") = 0
          /\ Count("start_geocoding") = 0
          /\ Count("refine") = 1

C22_Witness ==
    /\ FailedIn("geocoding") /\ launched = <<"collector">>
    /\ Cardinality(chunks) = MaxChunks

\* ------------------------------------------------------------------ C39
\* C39: no run ends, completed or failed, with a browser session still
\* alive: every session the run created has been terminated by then.
C39_NoSessionLeftAtEnd ==
    stage \in {"Completed", "Failed"} => sessions = {}

\* =================================================================
\* end_scraping: wait for the downloads to end, then quit the browser
\* =================================================================

\* lines 323-327: the files of the download directory whose suffix, in lower
\* case, is .crdownload or .tmp
TmpFiles(d) == {f \in d : Lower(f.ext) \in {".crdownload", ".tmp"}}

\* the timeout argument: none at all, shorter than one sleep, longer
EsTimeouts == {0} \cup Timeouts

\* how many times end_scraping is called on the session
MaxCalls == 2

InitEndScraping ==
    /\ LwIdle
    /\ GeoIdle
    /\ PrimIdle
    /\ d_pc = "Idle" /\ initial_files = {} /\ snapshots = 0
    /\ download_clicked = "none" /\ prev = 0 /\ inTime = FALSE
    /\ d_result = "none"
    /\ dir \in SUBSET Downloads
    /\ now = 0 /\ end_time = 0 /\ polls = 0
    /\ timeout \in EsTimeouts
    /\ stage = "Idle" /\ launched = <<"collector">> /\ chunks = {}
    /\ chunk = 0 /\ geocoded = <<>> /\ done = <<>>
    /\ sessions = {"collector"}
    /\ es_pc = "Call" /\ es_calls = 0 /\ es_result = "none" /\ quits = 0
    /\ cleanPolls = 0
    /\ JobIdle
    /\ ChunkIdle
    /\ ConnIdle

\* line 319: the deadline of this call
EsEnter ==
    /\ es_pc = "Call"
    /\ es_calls' = es_calls + 1
    /\ end_time' = now + timeout
    /\ polls' = 0 /\ cleanPolls' = 0 /\ es_result' = "none"
    /\ es_pc' = "Loop"
    /\ UNCHANGED <<dir, now, timeout, sessions, quits>>

\* a variant that returns False at the deadline with the browser left running
EsPollMut ==
    /\ es_pc = "Loop"
    /\ IF now < end_time
         THEN /\ polls' = polls + 1
              /\ IF TmpFiles(dir) = {}
                   THEN /\ sessions' = Quit(sessions, "collector")
                        /\ quits' = quits + 1
                        /\ cleanPolls' = cleanPolls + 1
                        /\ es_result' = "True" /\ es_pc' = "Returned"
                        /\ UNCHANGED now
                   ELSE /\ now' = now + PollInterval
                        /\ UNCHANGED <<sessions, quits, cleanPolls, es_result,
                                       es_pc>>
         ELSE /\ es_result' = "False" /\ es_pc' = "Returned"
              /\ UNCHANGED <<now, polls, cleanPolls, sessions, quits>>
    /\ UNCHANGED <<dir, timeout, end_time, es_calls>>

\* lines 322-336: one pass of the while loop, or the way out at the deadline
EsPoll ==
    /\ es_pc = "Loop"
    /\ IF now < end_time
         THEN /\ polls' = polls + 1
              /\ IF TmpFiles(dir) = {}
                   THEN /\ sessions' = Quit(sessions, "collector")
                        /\ quits' = quits + 1
                        /\ cleanPolls' = cleanPolls + 1
                        /\ es_result' = "True" /\ es_pc' = "Returned"
                        /\ UNCHANGED now
                   ELSE /\ now' = now + PollInterval
                        /\ UNCHANGED <<sessions, quits, cleanPolls, es_result,
                                       es_pc>>
         ELSE /\ sessions' = Quit(sessions, "collector")
              /\ quits' = quits + 1
              /\ es_result' = "False" /\ es_pc' = "Returned"
              /\ UNCHANGED <<now, polls, cleanPolls>>
    /\ UNCHANGED <<dir, timeout, end_time, es_calls>>

\* end_scraping is called again on the session it has terminated
EsCallAgain ==
    /\ es_pc = "Returned"
    /\ es_calls < MaxCalls
    /\ es_pc' = "Call"
    /\ timeout' \in EsTimeouts
    /\ UNCHANGED <<dir, now, end_time, polls, sessions, es_calls, es_result,
                   quits, cleanPolls>>

\* the browser goes on writing into the download directory while the loop
\* runs: files appear, a provisional file goes away when its download ends
EsFileAppears ==
    /\ es_pc = "Loop"
    /\ \E f \in Incoming \ dir : dir' = dir \cup {f}
    /\ UNCHANGED <<now, timeout, end_time, polls, sessions, esVars>>

EsFileVanishes ==
    /\ es_pc = "Loop"
    /\ \E f \in TmpFiles(dir) : dir' = dir \ {f}
    /\ UNCHANGED <<now, timeout, end_time, polls, sessions, esVars>>

\* what no step of end_scraping touches
EsFrame ==
    UNCHANGED <<lwVars, geoVars, primVars, d_pc, initial_files, snapshots,
                download_clicked, prev, inTime, d_result, stage, launched,
                chunks, chunk, geocoded, done, jobVars, chunkVars, connVars>>

NextEndScraping ==
    \/ EsEnter /\ EsFrame
    \/ EsPoll /\ EsFrame
    \/ EsCallAgain /\ EsFrame
    \/ EsFileAppears /\ EsFrame
    \/ EsFileVanishes /\ EsFrame

SpecEndScraping == InitEndScraping /\ [][NextEndScraping]_vars

\* ------------------------------------------------------------------ C23
\* C23: every call of end_scraping that returns has called driver.quit()
\* exactly once, on the True path and on the False path alike; it returns
\* True iff one of its listings, made before the deadline, found no file with
\* suffix .crdownload or .tmp (in any case), False otherwise; a second call on
\* the terminated session returns a boolean as well and leaves the session
\* terminated.
C23_EndScraping ==
    /\ es_pc = "Returned" =>
          /\ quits = es_calls
          /\ es_result \in {"True", "False"}
          /\ (es_result = "True") <=> (cleanPolls >= 1)
          /\ es_result = "True" => (TmpFiles(dir) = {} /\ now < end_time)
          /\ es_result = "False" => now >= end_time
          /\ "collector" \notin sessions
    /\ es_pc = "Loop" => quits = es_calls - 1
    /\ es_calls >= 2 => "collector" \notin sessions

C23_Witness ==
    /\ es_pc = "Returned" /\ es_calls = 2 /\ es_result = "False"
    /\ polls >= 2 /\ PartUpper \in dir /\ quits = 2

\* =================================================================
\* One start_geocoding with what its first steps gave kept, and with the
\* windows of the session followed from the trigger to the cleanup
\* =================================================================

\* a window that is not the monitoring popup
OtherUrl == <<"b", "b">>

\* start_geocoding is called on a session with one window, the submission
\* page to be loaded in it
InitJob ==
    /\ LwIdle
    /\ PipeIdle
    /\ EsIdle
    /\ JobIdle
    /\ ChunkIdle
    /\ ConnIdle
    /\ d_pc = "Idle"
    /\ dir = {}
    /\ initial_files = {} /\ snapshots = 0
    /\ now = 0
    /\ timeout \in {t \in Timeouts : t < PollInterval}
    /\ end_time = 0
    /\ download_clicked = "none"
    /\ polls = 0 /\ prev = 0 /\ inTime = FALSE
    /\ d_result = "none"
    /\ pc = "Upload" /\ result = "none" /\ retries = 0 /\ probes = 0 /\ pollRefreshes = 0
    /\ rowFound = FALSE /\ download_button = "unbound" /\ lastObs = "none"
    /\ disabledObs = 0 /\ readyRefreshes = 0 /\ downloadAttempts = 0
    /\ clearCalls = 0 /\ clearClicks = 0 /\ download = "none" /\ closes = 0
    /\ faults = 0
    /\ prim = "none" /\ p_pc = "Idle" /\ p_timeout = 0 /\ p_waited = 0
    /\ visible = 0 /\ elements = 0 /\ clicked = <<>> /\ lwResults = <<>>
    /\ url = <<>> /\ min_windows = 0 /\ scanned = 0 /\ p_result = "none"
    /\ handles = <<MainUrl>> /\ current = 1

\* what the steps of the job leave alone among the primitives' variables
JobFrame ==
    UNCHANGED <<prim, p_pc, p_timeout, p_waited, visible, elements, clicked,
                lwResults, url, min_windows, scanned, p_result, pipeVars,
                esVars, chunkVars, connVars>>

\* line 45: upload_xlsx, the booleans of its five primitives dropped
JobUpload ==
    /\ \E o \in Outcomes : UploadXlsxGives(o) /\ uploaded' = o
    /\ UNCHANGED <<triggered, popup, handles, current>>
    /\ JobFrame

\* line 48: the trigger click, its boolean dropped
JobTrigger ==
    /\ \E o \in Outcomes : TriggerJobGives(o) /\ triggered' = o
    /\ UNCHANGED <<uploaded, popup, handles, current>>
    /\ JobFrame

\* lines 66-72. switch_to_window found the popup the trigger opened: the
\* session is on it. Or it did not: no window came (its wait ran out, the
\* session is where it was), or a window came that is not the monitoring page
\* (the scan of selenium_scraper.py 224-230 ended on the last handle); then
\* fetch_page loads the monitoring page in the window the session is on.
JobLocate ==
    /\ \E found \in BOOLEAN, o \in Outcomes, extra \in BOOLEAN :
         /\ found => ~extra
         /\ LocateMonitoringGives(found, o)
         /\ popup' = IF found THEN "True" ELSE "False"
         /\ LET opened == IF found THEN Append(handles, MonitoringUrl)
                          ELSE IF extra THEN Append(handles, OtherUrl)
                          ELSE handles
                on == IF found \/ extra THEN Len(opened) ELSE current
            IN  /\ current' = on
                /\ handles' = IF found \/ o = "Raised"
                                THEN opened
                                ELSE [opened EXCEPT ![on] = MonitoringUrl]
    /\ UNCHANGED <<uploaded, triggered>>
    /\ JobFrame

\* lines 56-62 on the windows the session has
JobCleanup ==
    /\ CleanupOn(handles, current)
    /\ UNCHANGED <<pipeVars, esVars, jobVars, chunkVars, connVars>>

NextJob ==
    \/ JobUpload
    \/ JobTrigger
    \/ JobLocate
    \/ ProbeRow /\ UNCHANGED <<primVars, pipeVars, esVars, jobVars, chunkVars, connVars>>
    \/ PollExhausted /\ UNCHANGED <<primVars, pipeVars, esVars, jobVars, chunkVars, connVars>>
    \/ CheckDisabled /\ UNCHANGED <<primVars, pipeVars, esVars, jobVars, chunkVars, connVars>>
    \/ RefreshAndRelocate /\ UNCHANGED <<primVars, pipeVars, esVars, jobVars, chunkVars, connVars>>
    \/ CallFileDownload /\ UNCHANGED <<primVars, pipeVars, esVars, jobVars, chunkVars, connVars>>
    \/ FileDownloadReturns /\ UNCHANGED <<primVars, pipeVars, esVars, jobVars, chunkVars, connVars>>
    \/ ClearHistory /\ UNCHANGED <<primVars, pipeVars, esVars, jobVars, chunkVars, connVars>>
    \/ CheckDownload /\ UNCHANGED <<primVars, pipeVars, esVars, jobVars, chunkVars, connVars>>
    \/ JobCleanup
    \/ NextDetector

SpecJob == InitJob /\ [][NextJob]_vars

\* ------------------------------------------------------------------ C31
\* C31: a False from a step of upload_xlsx neither ends start_geocoding
\* early nor raises: the trigger click and the monitoring phase follow; and
\* the chunk whose upload gave False ends with the result False.
C31_FailedUploadEndsFalse ==
    /\ (uploaded = "False" /\ faults = 0 /\ probes = 0) =>
          (pc \in {"Trigger", "Popup", "Poll"} /\ result = "none")
    /\ (uploaded = "False" /\ faults = 0 /\ Ended) =>
          (triggered /= "none" /\ popup /= "none" /\ result = "False")

\* ------------------------------------------------------------------ C36
\* C36: after a start_geocoding that returned True the session has a window
\* and is on one of its windows, whether the monitoring page was a popup or
\* was loaded by the fallback.
C36_WindowLeftAfterTrue ==
    (Ended /\ result = "True") =>
        (handles /= <<>> /\ current \in 1..Len(handles))

\* ------------------------------------------------------------------ C37
\* C37: the download control of the row is clicked, and the row cleared, only
\* if the trigger click of this start_geocoding gave True.
C37_DownloadOnlyOwnJob ==
    (downloadAttempts >= 1 \/ clearCalls >= 1) => triggered = "True"

\* =================================================================
\* chunk_dataframe: the rows of a DataFrame cut into chunks
\* =================================================================

MaxRows == 4
MaxChunkSize == 3

\* the values a row may hold: two rows may be equal
RowValues == {"x", "y"}

\* the DataFrames of up to MaxRows rows
DataFrames ==
    UNION {[1..n -> RowValues] : n \in 0..MaxRows}

\* the smaller of two numbers
Min(a, b) == IF a < b THEN a ELSE b

\* a variant that gives nothing where the slice would run past the last row
SliceMut(d, i, j) == IF j > Len(d) THEN <<>> ELSE SubSeq(d, i + 1, j)

\* df[i : j] for 0 <= i <= j: the rows of positions i .. j-1, the end clipped
\* to the length
Slice(d, i, j) == SubSeq(d, i + 1, Min(j, Len(d)))

\* chunk_dataframe is called with a DataFrame and a positive chunk_size (the
\* default 50_000, or what export_refined_addr hands on)
InitChunk ==
    /\ LwIdle
    /\ DetIdle
    /\ GeoIdle
    /\ PrimIdle
    /\ PipeIdle
    /\ EsIdle
    /\ JobIdle
    /\ ConnIdle
    /\ c_pc = "Loop"
    /\ df \in DataFrames
    /\ chunk_size \in 1..MaxChunkSize
    /\ c_i = 0
    /\ c_out = <<>>

\* line 389: one element of the list comprehension, for the next i of
\* range(0, len(df), chunk_size)
ChunkStep ==
    /\ c_pc = "Loop"
    /\ c_i < Len(df)
    /\ c_out' = Append(c_out, Slice(df, c_i, c_i + chunk_size))
    /\ c_i' = c_i + chunk_size
    /\ UNCHANGED <<c_pc, df, chunk_size>>
    /\ UNCHANGED <<lwVars, detVars, geoVars, primVars, pipeVars, esVars, jobVars,
                   connVars>>

\* line 389: the range is used up, the list is returned
ChunkReturn ==
    /\ c_pc = "Loop"
    /\ ~(c_i < Len(df))
    /\ c_pc' = "Done"
    /\ UNCHANGED <<df, chunk_size, c_i, c_out>>
    /\ UNCHANGED <<lwVars, detVars, geoVars, primVars, pipeVars, esVars, jobVars,
                   connVars>>

NextChunk == ChunkStep \/ ChunkReturn

SpecChunk == InitChunk /\ [][NextChunk]_vars

\* ------------------------------------------------------------------ C32
RECURSIVE Concat(_)
\* the chunks of a list put one after the other
Concat(cs) == IF cs = <<>> THEN <<>> ELSE Head(cs) \o Concat(Tail(cs))

\* C32: the list chunk_dataframe returns is a partition of the rows: the
\* chunks concatenated in list order are df; every chunk has between 1 and
\* chunk_size rows; every chunk but the last has exactly chunk_size rows; an
\* empty df gives the empty list.
C32_ChunksPartition ==
    c_pc = "Done" =>
        /\ Concat(c_out) = df
        /\ \A k \in 1..Len(c_out) :
              /\ Len(c_out[k]) >= 1 /\ Len(c_out[k]) <= chunk_size
              /\ k < Len(c_out) => Len(c_out[k]) = chunk_size
        /\ df = <<>> => c_out = <<>>

C32_Witness ==
    /\ c_pc = "Done" /\ Len(df) = MaxRows /\ Len(c_out) >= 2
    /\ Len(c_out[Len(c_out)]) < chunk_size
    /\ df[1] /= df[2]

\* =================================================================
\* Geocoder.connect_to_platform: open the login page and log in
\* =================================================================

InitConnect ==
    /\ LwIdle
    /\ DetIdle
    /\ GeoIdle
    /\ PrimIdle
    /\ PipeIdle
    /\ EsIdle
    /\ JobIdle
    /\ ChunkIdle
    /\ cn_pc = "Fetch"
    /\ cn_log = <<>>
    /\ connected = "none"
    /\ siteUp \in BOOLEAN
    /\ loginOk \in BOOLEAN

\* what no step of connect_to_platform touches
ConnFrame ==
    UNCHANGED <<lwVars, detVars, geoVars, primVars, pipeVars, esVars, jobVars,
                chunkVars, siteUp, loginOk>>

\* line 25: logger.errror(...). The logger has no attribute of that name:
\* evaluating it raises AttributeError before the return False of line 26
LogConnectFailure == "Raised"

\* lines 21-27: fetch_page gives True only for a page that loaded
ConnFetch ==
    /\ cn_pc = "Fetch"
    /\ \E o \in Outcomes :
         /\ o = "True" => siteUp
         /\ cn_log' = Append(cn_log, o)
         /\ CASE o = "True" -> cn_pc' = "Login" /\ UNCHANGED connected
              [] o = "False" -> cn_pc' = "End" /\ connected' = LogConnectFailure
              [] o = "Raised" -> cn_pc' = "End" /\ connected' = "Raised"
    /\ ConnFrame

\* lines 30-36: send_key for the id, send_key for the password, click_element
\* on the login button; their booleans are dropped, a fault of one escapes
ConnLogin ==
    /\ cn_pc = "Login"
    /\ \E o \in Outcomes :
         /\ cn_log' = Append(cn_log, o)
         /\ IF o = "Raised"
              THEN cn_pc' = "End" /\ connected' = "Raised"
              ELSE /\ cn_pc' = IF Len(cn_log) = 3 THEN "Check" ELSE "Login"
                   /\ UNCHANGED connected
    /\ ConnFrame

\* the credentials were typed and sent, and the platform accepts them
LoggedIn ==
    /\ loginOk
    /\ \A k \in 2..4 : cn_log[k] = "True"

\* lines 37-41: find_element on the logout link gives the element, or False
\* when it is not there within the timeout
ConnCheck ==
    /\ cn_pc = "Check"
    /\ \E o \in {"Element", "False", "Raised"} :
         /\ o = "Element" => LoggedIn
         /\ cn_log' = Append(cn_log, o)
         /\ cn_pc' = "End"
         /\ connected' = CASE o = "Element" -> "True"
                            [] o = "False" -> "False"
                            [] o = "Raised" -> "Raised"
    /\ ConnFrame

\* gm_helth_phach_inf.py 143-145: geocoding() goes on to the chunks when
\* connect_to_platform gave True, raises when it gave False, and is left by
\* the fault when it raised
ConnCaller ==
    /\ cn_pc = "End"
    /\ cn_pc' = IF connected = "True" THEN "Chunks" ELSE "Failed"
    /\ UNCHANGED <<cn_log, connected>>
    /\ ConnFrame

NextConnect == ConnFetch \/ ConnLogin \/ ConnCheck \/ ConnCaller

SpecConnect == InitConnect /\ [][NextConnect]_vars

\* ------------------------------------------------------------------ C38
\* C38: connect_to_platform gives False, and does not raise, when fetch_page
\* gave False for the login page and when the logout link was not found after
\* the credentials were sent; it gives True only when the logout link was
\* found.
C38_ConnectGivesBoolean ==
    connected /= "none" =>
        /\ cn_log[1] = "False" => connected = "False"
        /\ (Len(cn_log) = 5 /\ cn_log[5] = "False") => connected = "False"
        /\ connected = "True" => (Len(cn_log) = 5 /\ cn_log[5] = "Element")

====
